---- MODULE Spec2Model ----
(***************************************************************************)
(* Model of libtatted: the JD79668 e-paper display driver (reset,          *)
(* initialize, show, SPI framing, busy polling, 2-bit pixel packing) and   *)
(* the nearest-colour palette maps.                                        *)
(*                                                                         *)
(* A driver call is one action.  Its hardware environment (which I/O call  *)
(* fails, how the busy line behaves, how long a sleep really takes) is an  *)
(* input of the action; the GPIO/SPI traffic of the call is recorded in    *)
(* call.log so that orderings inside one call can be stated as state       *)
(* predicates.                                                             *)
(***************************************************************************)
EXTENDS Integers, Sequences, FiniteSets, TLC

VARIABLES
    initialized,    \* InkyJd79668.initialized
    display_res,    \* InkyJd79668.display_res
    gpios,          \* value last driven on each output line
    call,           \* the last driver call: operation, input, result, I/O log
    init_ok_ever,   \* history: some initialize() has returned Ok
    pk,             \* pack_buffer applied to one input
    cm,             \* index_of, lookup and map_color applied to one colour or index
    pp,             \* prepare / prepare_dither applied to one raster
    bw,             \* one busy_wait, an iteration of its loop at a time
    ee,             \* one probe of the EEPROM
    nw,             \* InkyJd79668::new applied to one configuration
    sc              \* send_command applied to one command and payload

driver_vars == <<initialized, display_res, gpios, call, init_ok_ever>>
vars == <<initialized, display_res, gpios, call, init_ok_ever, pk, cm, pp, bw, ee, nw, sc>>

----------------------------------------------------------------------------
(* Bounds of the model *)

\* most busy polls a line that does become ready stays busy for
MaxBusyPolls == 2
\* longest pixel sequence handed to pack_buffer on its own
MaxLen == 5
\* largest pixel value handed to pack_buffer on its own (255 is added)
MaxPixelValue == 5
\* longest pixel sequence compared with every other one of its length
MaxPairLen == 4
\* grid step of the colour channel samples
ChanStep == 17
\* most applications of map_color to one colour
MaxMaps == 2
\* largest of the consecutive indices handed to lookup
MaxIndex == 8
\* most pixels of a raster whose dithering is unfolded
MaxDitherPixels == 6
\* latest read of the busy line that fails
MaxFailRead == 3

----------------------------------------------------------------------------
(* Program constants *)

X_ADDR_START_H == 1
X_ADDR_START_L == 144
Y_ADDR_START_H == 1
Y_ADDR_START_L == 44
SPI_CHUNK_SIZE == 4096

\* enum Jd79668Commands
PanelSetting == 0
PowerOff == 2
PowerOn == 4
BoosterSoftStart == 6
DeepSleep == 7
DataStartTransmission == 16
DisplayRefresh == 18
VcomDataIntervalSetting == 80
ResolutionSetting == 97

\* Durations, in milliseconds
INIT_BUSY_TIMEOUT == 1000
SHOW_BUSY_TIMEOUT == 40000
BUSY_POLL_SLEEP == 10
RESET_SLEEP == 100
COMMAND_SLEEP == 300

Resolution(w, h) == [width |-> w, height |-> h]

----------------------------------------------------------------------------
(* InkyError / InkyResult *)

Ok == [kind |-> "Ok"]
Uninitialized == [kind |-> "Uninitialized"]
GpioError == [kind |-> "GpioError"]
SpiIoError == [kind |-> "SpiIoError"]
BusyTimeout(timeout) == [kind |-> "BusyTimeout", timeout |-> timeout]
UnsupportedResolution(expected, found) ==
    [kind |-> "UnsupportedResolution", expected |-> expected, found |-> found]
InvalidPalettization(index_min, index_max) ==
    [kind |-> "InvalidPalettization", index_min |-> index_min, index_max |-> index_max]

----------------------------------------------------------------------------
(* 8-bit arithmetic of pack_buffer *)

RECURSIVE BitOr(_, _)
BitOr(a, b) ==
    IF a = 0 THEN b
    ELSE IF b = 0 THEN a
    ELSE (IF (a % 2 = 1) \/ (b % 2 = 1) THEN 1 ELSE 0) + 2 * BitOr(a \div 2, b \div 2)

\* u8 << k for k < 8: the bits shifted past bit 7 are dropped
Shl8(x, k) == (x * (2 ^ k)) % 256

\* slice.chunks(n): consecutive pieces of n elements, the last one shorter
RECURSIVE chunks(_, _)
chunks(s, n) ==
    IF Len(s) = 0 THEN <<>>
    ELSE IF Len(s) <= n THEN <<s>>
    ELSE <<SubSeq(s, 1, n)>> \o chunks(SubSeq(s, n + 1, Len(s)), n)

\* variant: a missing slot of the last group filled with index 3
get_or_0_pads_ones(chunk, i) == IF i + 1 <= Len(chunk) THEN chunk[i + 1] ELSE 3

\* chunk.get(i).unwrap_or(&0), with the 0-based index of the source
get_or_0(chunk, i) == IF i + 1 <= Len(chunk) THEN chunk[i + 1] ELSE 0

\* variant: the first pixel of a group in the two least-significant bits
pack_byte_lsb_first(chunk) ==
    BitOr(BitOr(BitOr(Shl8(get_or_0(chunk, 3), 6), Shl8(get_or_0(chunk, 2), 4)),
                Shl8(get_or_0(chunk, 1), 2)),
          get_or_0(chunk, 0))

pack_byte(chunk) ==
    BitOr(BitOr(BitOr(Shl8(get_or_0(chunk, 0), 6), Shl8(get_or_0(chunk, 1), 4)),
                Shl8(get_or_0(chunk, 2), 2)),
          get_or_0(chunk, 3))

\* variant: the bound of the validation off by one
all_in_palette_off_by_one(pixels) == \A i \in 1..Len(pixels) : pixels[i] <= 4

\* the validation of pack_buffer
all_in_palette(pixels) == \A i \in 1..Len(pixels) : pixels[i] < 4

\* InkyJd79668::pack_buffer: [res |-> Ok or the error, bytes |-> the Vec<u8>]
pack_buffer(pixels) ==
    IF ~all_in_palette(pixels)
    THEN [res |-> InvalidPalettization(0, 3), bytes |-> <<>>]
    ELSE LET cs == chunks(pixels, 4)
         IN [res |-> Ok, bytes |-> [k \in 1..Len(cs) |-> pack_byte(cs[k])]]

----------------------------------------------------------------------------
(* The colour maps: colormap/inky_map.rs and colormap/mono_map.rs *)

I32_MAX == 2147483647

\* From<InkyFourColorPalette> for Rgb<u8>, in the order of the enum
InkyFourColorPalette == << <<0, 0, 0>>, <<255, 255, 255>>, <<255, 255, 0>>, <<255, 0, 0>> >>

\* From<MonoColorPalette> for Rgb<u8>, in the order of the enum
MonoColorPalette == << <<0, 0, 0>>, <<255, 255, 255>> >>

\* dr.pow(2) + dg.pow(2) + db.pow(2); no i32 overflow, each term is at most 255^2
distance(color, palette_color) ==
    LET dr == color[1] - palette_color[1]
        dg == color[2] - palette_color[2]
        db == color[3] - palette_color[3]
    IN dr * dr + dg * dg + db * db

\* variant: a later entry at the same distance replaces the best one
closer_or_equal(d, best_distance) == d <= best_distance

\* one pass of the for loop of index_of: is the palette entry taken as the new best
closer(d, best_distance) == d < best_distance

\* the for loop of index_of; index is the 0-based position of enumerate()
RECURSIVE index_of_loop(_, _, _, _, _)
index_of_loop(palette, color, index, best_index, best_distance) ==
    IF index >= Len(palette) THEN best_index
    ELSE LET d == distance(color, palette[index + 1])
         IN IF closer(d, best_distance)
            THEN index_of_loop(palette, color, index + 1, index, d)
            ELSE index_of_loop(palette, color, index + 1, best_index, best_distance)

\* InkyFourColorMap::index_of
InkyFourColorMap_index_of(color) == index_of_loop(InkyFourColorPalette, color, 0, 0, I32_MAX)

\* variant: the monochrome palette enumerated white first
MonoColorMap_index_of_white_first(color) ==
    index_of_loop(<<MonoColorPalette[2], MonoColorPalette[1]>>, color, 0, 0, I32_MAX)

\* MonoColorMap::index_of
MonoColorMap_index_of(color) == index_of_loop(MonoColorPalette, color, 0, 0, I32_MAX)

\* enum SupportedColorMaps
SupportedColorMaps == {"InkyFourColor", "Mono"}

\* variant: the index counted from 1
index_of_one_based(map, color) ==
    1 + (IF map = "InkyFourColor" THEN InkyFourColorMap_index_of(color)
         ELSE MonoColorMap_index_of(color))

index_of(map, color) ==
    IF map = "InkyFourColor" THEN InkyFourColorMap_index_of(color) ELSE MonoColorMap_index_of(color)

\* Option<Rgb<u8>>
NoColor == [found |-> FALSE, color |-> <<>>]
SomeColor(color) == [found |-> TRUE, color |-> color]

\* variant: the palette without its last entry
InkyFourColorMap_lookup_three(index) ==
    IF index = 0 THEN SomeColor(InkyFourColorPalette[1])
    ELSE IF index = 1 THEN SomeColor(InkyFourColorPalette[2])
    ELSE IF index = 2 THEN SomeColor(InkyFourColorPalette[3])
    ELSE NoColor

\* InkyFourColorMap::lookup: the arms of TryFrom<usize> for InkyFourColorPalette,
\* Rgb::from on the variant, .ok() on the error
InkyFourColorMap_lookup(index) ==
    IF index = 0 THEN SomeColor(InkyFourColorPalette[1])
    ELSE IF index = 1 THEN SomeColor(InkyFourColorPalette[2])
    ELSE IF index = 2 THEN SomeColor(InkyFourColorPalette[3])
    ELSE IF index = 3 THEN SomeColor(InkyFourColorPalette[4])
    ELSE NoColor

\* variant: the two-colour map answering from the four-colour palette
MonoColorMap_lookup_four(index) == InkyFourColorMap_lookup(index)

\* MonoColorMap::lookup
MonoColorMap_lookup(index) ==
    IF index = 0 THEN SomeColor(MonoColorPalette[1])
    ELSE IF index = 1 THEN SomeColor(MonoColorPalette[2])
    ELSE NoColor

\* variant: the palette read from its far end
lookup_reversed(map, index) ==
    IF map = "InkyFourColor" THEN InkyFourColorMap_lookup(3 - index)
    ELSE MonoColorMap_lookup(1 - index)

lookup(map, index) ==
    IF map = "InkyFourColor" THEN InkyFourColorMap_lookup(index) ELSE MonoColorMap_lookup(index)

\* ColorMap::map_color, the colour written through the &mut; panic is the
\* expect() on the lookup
map_color(map, color) ==
    LET index == index_of(map, color)
        nearest_color == lookup(map, index)
    IN IF nearest_color.found
       THEN [panic |-> FALSE, color |-> nearest_color.color]
       ELSE [panic |-> TRUE, color |-> color]

----------------------------------------------------------------------------
(* image.rs: ImagePreProcessor.  A raster (the DynamicImage handed in, the  *)
(* RgbImage made of it, the GrayImage of indices) is its width, its height  *)
(* and its pixels row by row.                                               *)

U16_MODULUS == 65536

Image(w, h, pixels) == [width |-> w, height |-> h, pixels |-> pixels]
NoRaster == Image(0, 0, <<>>)

Panic(msg) == [kind |-> "Panic", msg |-> msg]

\* `as u16` on a u32: the low 16 bits
as_u16(x) == x % U16_MODULUS

\* ImageBuffer::get_pixel(x, y): the position of the pixel in the buffer
in_bounds(img, x, y) == x >= 0 /\ x < img.width /\ y >= 0 /\ y < img.height
pixel_index(img, x, y) == y * img.width + x + 1

\* imageops::index_colors: Luma([color_map.index_of(pixel) as u8]) for every pixel
index_colors(map, img) ==
    [img EXCEPT !.pixels = [i \in 1..Len(img.pixels) |-> index_of(map, img.pixels[i]) % 256]]

\* i16 division, rounding toward zero
TruncDiv(a, b) == IF a >= 0 THEN a \div b ELSE -((-a) \div b)

\* the share factor/16 of the error added to a pixel, each channel kept in 0..255
diffuse_err(pixel, error, factor) ==
    [ch \in 1..3 |->
        LET val == pixel[ch] + TruncDiv(error[ch] * factor, 16)
        IN IF val < 0 THEN 0 ELSE IF val > 255 THEN 255 ELSE val]

\* diffuse_err on pixel (x, y), which is left out when it lies outside the raster
diffuse_at(img, x, y, error, factor) ==
    IF ~in_bounds(img, x, y) THEN img
    ELSE [img EXCEPT !.pixels[pixel_index(img, x, y)] = diffuse_err(@, error, factor)]

\* imageops::dither from pixel k on (row by row, left to right): the pixel is
\* replaced by map_color of it and the difference goes to its right and lower
\* neighbours with the weights 7, 3, 5, 1 (Floyd-Steinberg)
RECURSIVE dither_from(_, _, _)
dither_from(map, img, k) ==
    IF k >= img.width * img.height THEN [panic |-> FALSE, img |-> img]
    ELSE LET x == k % img.width
             y == k \div img.width
             old_pixel == img.pixels[k + 1]
             m == map_color(map, old_pixel)
             err == [ch \in 1..3 |-> old_pixel[ch] - m.color[ch]]
             img0 == [img EXCEPT !.pixels[k + 1] = m.color]
             img1 == diffuse_at(img0, x + 1, y, err, 7)
             img2 == diffuse_at(img1, x - 1, y + 1, err, 3)
             img3 == diffuse_at(img2, x, y + 1, err, 5)
             img4 == diffuse_at(img3, x + 1, y + 1, err, 1)
         IN IF m.panic THEN [panic |-> TRUE, img |-> img]
            ELSE dither_from(map, img4, k + 1)

dither(map, img) == dither_from(map, img, 0)

\* Resolution::new(img.width() as u16, img.height() as u16)
input_res(img) == Resolution(as_u16(img.width), as_u16(img.height))

\* InkyResult<IndexImage>
PrepareErr(err) == [res |-> err, index_img |-> NoRaster, pixel_img |-> NoRaster]
IndexImage(index_img, pixel_img) == [res |-> Ok, index_img |-> index_img, pixel_img |-> pixel_img]

\* the closure of ImageBuffer::from_fn in prepare: pixel (x, y) of the
\* reconstruction; get_pixel outside the index image panics as a missing colour does
remap_pixel(map, index_image, x, y) ==
    IF ~in_bounds(index_image, x, y) THEN NoColor
    ELSE lookup(map, index_image.pixels[pixel_index(index_image, x, y)])

\* prepare from the index image on: the reconstruction, then IndexImage::new
remap(map, desired_res, index_image) ==
    LET w == desired_res.width
        h == desired_res.height
        mapped == [k \in 1..(w * h) |-> remap_pixel(map, index_image, (k - 1) % w, (k - 1) \div w)]
    IN IF \E k \in 1..(w * h) : ~mapped[k].found
       THEN PrepareErr(Panic("indexed color out-of-range"))
       ELSE IndexImage(index_image, Image(w, h, [k \in 1..(w * h) |-> mapped[k].color]))

\* ImagePreProcessor::prepare; to_rgb8 of an RGB8 raster is a copy
prepare(map, desired_res, img) ==
    IF input_res(img) # desired_res
    THEN PrepareErr(UnsupportedResolution(desired_res, input_res(img)))
    ELSE remap(map, desired_res, index_colors(map, img))

\* ImagePreProcessor::prepare_dither
prepare_dither(map, desired_res, img) ==
    IF input_res(img) # desired_res
    THEN PrepareErr(UnsupportedResolution(desired_res, input_res(img)))
    ELSE LET rgb == dither(map, img)
         IN IF rgb.panic THEN PrepareErr(Panic("it is a logic error to hit this index out of bounds"))
            ELSE remap(map, desired_res, index_colors(map, rgb.img))

\* the prepared image as show reads it: resolution() is the width and height
\* of the grid of indices, index_img().into_vec() its indices row by row
resolution(image) == Resolution(image.index_img.width, image.index_img.height)
into_vec(raster) == raster.pixels
InkyImage(image) == [res |-> resolution(image), pixels |-> into_vec(image.index_img)]

----------------------------------------------------------------------------
(* eeprom.rs: the probe of the identification EEPROM on one I2C bus *)

EEPROM_ADDRESS == 80
EEPROM_LENGTH == 29
U16_MAX == 65535
U8_MAX == 255

\* struct EepromInfo
EepromInfo(width, height, color, pcb_variant, display_variant) ==
    [width |-> width, height |-> height, color |-> color,
     pcb_variant |-> pcb_variant, display_variant |-> display_variant]

\* enum I2cProbeStatus
Found(info) == [status |-> "Found", info |-> info]
Blank == [status |-> "Blank"]
Invalid(reason) == [status |-> "Invalid", reason |-> reason]
Unavailable == [status |-> "Unavailable"]
Error(message) == [status |-> "Error", message |-> message]

\* enum LinuxI2CError; an io::Error is its kind and its text
IoError(kind, text) == [kind |-> kind, text |-> text]
Io(io_err) == [variant |-> "Io", io_err |-> io_err]
Errno(code) == [variant |-> "Errno", code |-> code]

\* io::Error::from_raw_os_error(code): the kind std gives a Linux errno
decode_error_kind(code) ==
    IF code = 1 \/ code = 13 THEN "PermissionDenied"
    ELSE IF code = 2 THEN "NotFound"
    ELSE IF code = 4 THEN "Interrupted"
    ELSE IF code = 11 THEN "WouldBlock"
    ELSE IF code = 16 THEN "ResourceBusy"
    ELSE IF code = 22 THEN "InvalidInput"
    ELSE IF code = 110 THEN "TimedOut"
    ELSE "Uncategorized"
from_raw_os_error(code) == IoError(decode_error_kind(code), <<"os error", code>>)

\* variant: only a missing device node counts as no display
handle_io_error_not_found_only(io_err) ==
    IF io_err.kind = "NotFound" THEN Unavailable ELSE Error(io_err.text)

handle_io_error(io_err) ==
    IF io_err.kind = "NotFound" \/ io_err.kind = "PermissionDenied" THEN Unavailable
    ELSE Error(io_err.text)

handle_errno(code) ==
    LET io_err == from_raw_os_error(code)
    IN IF io_err.kind = "NotFound" \/ io_err.kind = "PermissionDenied" THEN Unavailable
       ELSE Error(io_err.text)

map_i2c_error(err) ==
    IF err.variant = "Io" THEN handle_io_error(err.io_err) ELSE handle_errno(err.code)

handle_i2c_open_error(err) ==
    IF err.variant = "Io" THEN handle_io_error(err.io_err) ELSE handle_errno(err.code)

\* variant: an erased EEPROM only, every byte 0xFF
is_blank_eeprom_erased_only(data) == \A i \in 1..Len(data) : data[i] = 255

is_blank_eeprom(data) == \A i \in 1..Len(data) : data[i] = 255 \/ data[i] = 0

u16_from_le_bytes(b0, b1) == b0 + 256 * b1

\* variant: the two bytes of a dimension read high byte first
parse_eeprom_big_endian(data) ==
    LET width == u16_from_le_bytes(data[2], data[1])
        height == u16_from_le_bytes(data[4], data[3])
    IN IF width = 0 \/ height = 0 \/ width = U16_MAX \/ height = U16_MAX
       THEN [ok |-> FALSE, info |-> EepromInfo(0, 0, 0, 0, 0),
             reason |-> <<"width/height out of range", width, height>>]
       ELSE IF data[7] = U8_MAX
       THEN [ok |-> FALSE, info |-> EepromInfo(0, 0, 0, 0, 0),
             reason |-> <<"display variant invalid (255)">>]
       ELSE [ok |-> TRUE, info |-> EepromInfo(width, height, data[5], data[6], data[7]),
             reason |-> <<>>]

\* parse_eeprom: Result<EepromInfo, String>; data[k + 1] here is data[k] there
parse_eeprom(data) ==
    LET width == u16_from_le_bytes(data[1], data[2])
        height == u16_from_le_bytes(data[3], data[4])
        color == data[5]
        pcb_variant == data[6]
        display_variant == data[7]
    IN IF width = 0 \/ height = 0 \/ width = U16_MAX \/ height = U16_MAX
       THEN [ok |-> FALSE, info |-> EepromInfo(0, 0, 0, 0, 0),
             reason |-> <<"width/height out of range", width, height>>]
       ELSE IF display_variant = U8_MAX
       THEN [ok |-> FALSE, info |-> EepromInfo(0, 0, 0, 0, 0),
             reason |-> <<"display variant invalid (255)">>]
       ELSE [ok |-> TRUE, info |-> EepromInfo(width, height, color, pcb_variant, display_variant),
             reason |-> <<>>]

\* const DISPLAY_VARIANT_NAMES: [&str; 25]
DISPLAY_VARIANT_NAMES ==
    << "Unknown",
       "Red pHAT (High-Temp)",
       "Yellow wHAT",
       "Black wHAT",
       "Black pHAT",
       "Yellow pHAT",
       "Red wHAT",
       "Red wHAT (High-Temp)",
       "Red wHAT",
       "Unknown",
       "Black pHAT (SSD1608)",
       "Red pHAT (SSD1608)",
       "Yellow pHAT (SSD1608)",
       "Unknown",
       "7-Colour (UC8159) 600x448",
       "7-Colour 640x400 (UC8159)",
       "7-Colour 640x400 (UC8159)",
       "Black wHAT (SSD1683)",
       "Red wHAT (SSD1683)",
       "Yellow wHAT (SSD1683)",
       "7-Colour 800x480 (AC073TC1A)",
       "Spectra 6 13.3 1600x1200 (EL133UF1)",
       "Spectra 6 7.3 800x480 (E673)",
       "Red/Yellow pHAT (JD79661)",
       "Red/Yellow wHAT (JD79668)" >>

\* EepromInfo::variant_name: .get(display_variant as usize).copied().unwrap_or("Unknown")
variant_name(info) ==
    IF info.display_variant < Len(DISPLAY_VARIANT_NAMES)
    THEN DISPLAY_VARIANT_NAMES[info.display_variant + 1]
    ELSE "Unknown"

\* Option<DisplaySpec>
NoDisplaySpec == [some |-> FALSE, controller |-> "none", width |-> 0, height |-> 0]
Jd79668Spec(width, height) ==
    [some |-> TRUE, controller |-> "Jd79668", width |-> width, height |-> height]

\* variant: the panel resolved with its sides exchanged
display_spec_transposed(info) ==
    IF info.display_variant = 24 THEN Jd79668Spec(info.height, info.width)
    ELSE NoDisplaySpec

\* variant: the JD79661 pHAT taken for the JD79668 wHAT as well
display_spec_both_jd(info) ==
    IF info.display_variant = 23 \/ info.display_variant = 24
    THEN Jd79668Spec(info.width, info.height)
    ELSE NoDisplaySpec

\* EepromInfo::display_spec
display_spec(info) ==
    IF info.display_variant = 24 THEN Jd79668Spec(info.width, info.height)
    ELSE NoDisplaySpec

\* the bus seen by one probe: which step fails (1 the open, 2 the write,
\* 3 the read, 0 none), with which error, and the bytes a read returns
ProbeStep(op, arg, ok) == [op |-> op, arg |-> arg, ok |-> ok]
ProbeResult(status, log) == [status |-> status, log |-> log]

\* read_eeprom: the status, and the steps made on the device in order
read_eeprom(env) ==
    LET open == ProbeStep("open", <<EEPROM_ADDRESS>>, env.fail_step # 1)
        write == ProbeStep("write", <<0, 0>>, env.fail_step # 2)
        read == ProbeStep("read", <<EEPROM_LENGTH>>, env.fail_step # 3)
        buf == env.data
    IN IF env.fail_step = 1 THEN ProbeResult(handle_i2c_open_error(env.err), <<open>>)
       ELSE IF env.fail_step = 2 THEN ProbeResult(map_i2c_error(env.err), <<open, write>>)
       ELSE IF env.fail_step = 3 THEN ProbeResult(map_i2c_error(env.err), <<open, write, read>>)
       ELSE IF is_blank_eeprom(buf) THEN ProbeResult(Blank, <<open, write, read>>)
       ELSE LET parsed == parse_eeprom(buf)
            IN IF parsed.ok THEN ProbeResult(Found(parsed.info), <<open, write, read>>)
               ELSE ProbeResult(Invalid(parsed.reason), <<open, write, read>>)

----------------------------------------------------------------------------
(* The hardware seen by one call.                                          *)
(*   fail     : ordinal of the GPIO/SPI call that fails (0: none does)     *)
(*   stuck    : ordinal of the busy_wait during which the busy line never  *)
(*              reports ready (0: none)                                    *)
(*   ready_at : in every other busy_wait, the line reports ready from this *)
(*              many ms after the wait started                             *)
(*   sleep_ms : what thread::sleep(10 ms) really takes (at least 10 ms)    *)

CleanEnv == [fail |-> 0, stuck |-> 0, ready_at |-> 0, sleep_ms |-> BUSY_POLL_SLEEP]

\* the per-call context threaded through the driver's steps; a step is
\* skipped once err is set, which is what the ? operator does
Ctx(g) == [gpios |-> g, log |-> <<>>, io |-> 0, waits |-> 0, err |-> Ok]

\* gpiocdev Request::set_lone_value
set_lone_value(c, env, line, value) ==
    IF c.err # Ok THEN c
    ELSE IF env.fail = c.io + 1
    THEN [c EXCEPT !.io = @ + 1, !.err = GpioError,
                   !.log = Append(@, [op |-> "set", line |-> line, value |-> value, ok |-> FALSE])]
    ELSE [c EXCEPT !.io = @ + 1, !.gpios[line] = value,
                   !.log = Append(@, [op |-> "set", line |-> line, value |-> value, ok |-> TRUE])]

\* thread::sleep
sleep(c, ms) ==
    IF c.err # Ok THEN c
    ELSE [c EXCEPT !.log = Append(@, [op |-> "sleep", ms |-> ms])]

\* Spidev::write_all; what is "command" or "data"
write_all(c, env, what, bytes) ==
    IF c.err # Ok THEN c
    ELSE IF env.fail = c.io + 1
    THEN [c EXCEPT !.io = @ + 1, !.err = SpiIoError,
                   !.log = Append(@, [op |-> "spi", what |-> what, bytes |-> bytes, ok |-> FALSE])]
    ELSE [c EXCEPT !.io = @ + 1,
                   !.log = Append(@, [op |-> "spi", what |-> what, bytes |-> bytes, ok |-> TRUE])]

\* for chunk in data.chunks(SPI_CHUNK_SIZE) { write_all(chunk)? }
RECURSIVE write_chunks(_, _, _)
write_chunks(c, env, cs) ==
    IF Len(cs) = 0 THEN c
    ELSE write_chunks(write_all(c, env, "data", Head(cs)), env, Tail(cs))

\* Option<&[u8]>
None == [some |-> FALSE, bytes |-> <<>>]
Some(bytes) == [some |-> TRUE, bytes |-> bytes]

\* variant: the payload written while data/command still selects command mode
send_command_no_data_mode(c, env, command, data) ==
    LET c1 == set_lone_value(c, env, "chip_select", "Inactive")
        c2 == set_lone_value(c1, env, "data_cmd", "Inactive")
        c3 == sleep(c2, COMMAND_SLEEP)
        c4 == write_all(c3, env, "command", <<command>>)
        c5 == IF data.some
              THEN LET d2 == sleep(c4, COMMAND_SLEEP)
                       d3 == IF Len(data.bytes) <= SPI_CHUNK_SIZE
                             THEN write_all(d2, env, "data", data.bytes)
                             ELSE write_chunks(d2, env, chunks(data.bytes, SPI_CHUNK_SIZE))
                   IN set_lone_value(d3, env, "data_cmd", "Active")
              ELSE c4
        c6 == set_lone_value(c5, env, "chip_select", "Active")
    IN set_lone_value(c6, env, "data_cmd", "Inactive")

\* variant: data/command left where the payload put it
send_command_leaves_data_mode(c, env, command, data) ==
    LET c1 == set_lone_value(c, env, "chip_select", "Inactive")
        c2 == set_lone_value(c1, env, "data_cmd", "Inactive")
        c3 == sleep(c2, COMMAND_SLEEP)
        c4 == write_all(c3, env, "command", <<command>>)
        c5 == IF data.some
              THEN LET d1 == set_lone_value(c4, env, "data_cmd", "Active")
                       d2 == sleep(d1, COMMAND_SLEEP)
                   IN IF Len(data.bytes) <= SPI_CHUNK_SIZE
                      THEN write_all(d2, env, "data", data.bytes)
                      ELSE write_chunks(d2, env, chunks(data.bytes, SPI_CHUNK_SIZE))
              ELSE c4
    IN set_lone_value(c5, env, "chip_select", "Active")

\* variant: the payload written in one transfer whatever its length
send_command_single_frame(c, env, command, data) ==
    LET c1 == set_lone_value(c, env, "chip_select", "Inactive")
        c2 == set_lone_value(c1, env, "data_cmd", "Inactive")
        c3 == sleep(c2, COMMAND_SLEEP)
        c4 == write_all(c3, env, "command", <<command>>)
        c5 == IF data.some
              THEN LET d1 == set_lone_value(c4, env, "data_cmd", "Active")
                       d2 == sleep(d1, COMMAND_SLEEP)
                   IN write_all(d2, env, "data", data.bytes)
              ELSE c4
        c6 == set_lone_value(c5, env, "chip_select", "Active")
    IN set_lone_value(c6, env, "data_cmd", "Inactive")

\* InkyJd79668::send_command
send_command(c, env, command, data) ==
    LET c1 == set_lone_value(c, env, "chip_select", "Inactive")
        c2 == set_lone_value(c1, env, "data_cmd", "Inactive")
        c3 == sleep(c2, COMMAND_SLEEP)
        c4 == write_all(c3, env, "command", <<command>>)
        c5 == IF data.some
              THEN LET d1 == set_lone_value(c4, env, "data_cmd", "Active")
                       d2 == sleep(d1, COMMAND_SLEEP)
                   IN IF Len(data.bytes) <= SPI_CHUNK_SIZE
                      THEN write_all(d2, env, "data", data.bytes)
                      ELSE write_chunks(d2, env, chunks(data.bytes, SPI_CHUNK_SIZE))
              ELSE c4
        c6 == set_lone_value(c5, env, "chip_select", "Active")
    IN set_lone_value(c6, env, "data_cmd", "Inactive")

\* the level of the busy line at a read: Active is ready, Inactive is busy
busy_line(env, wait, elapsed) ==
    IF wait # env.stuck /\ elapsed >= env.ready_at THEN "Active" ELSE "Inactive"

\* variant: a ready line is given one more poll interval to settle
busy_poll_settle(c, env, timeout, elapsed) ==
    IF ~(elapsed < timeout)
    THEN [done |-> TRUE, elapsed |-> elapsed, c |-> [c EXCEPT !.err = BusyTimeout(timeout)]]
    ELSE LET v == busy_line(env, c.waits, elapsed)
             c1 == [c EXCEPT !.io = @ + 1,
                             !.log = Append(@, [op |-> "read", line |-> "busy", value |-> v, ok |-> TRUE])]
         IN [done |-> v = "Active", elapsed |-> elapsed + env.sleep_ms,
             c |-> sleep(c1, BUSY_POLL_SLEEP)]

\* variant: a failing read of the busy line counted as a busy one
busy_poll_read_error_is_busy(c, env, timeout, elapsed) ==
    IF ~(elapsed < timeout)
    THEN [done |-> TRUE, elapsed |-> elapsed, c |-> [c EXCEPT !.err = BusyTimeout(timeout)]]
    ELSE LET failed == env.fail = c.io + 1
             v == IF failed THEN "Inactive" ELSE busy_line(env, c.waits, elapsed)
             c1 == [c EXCEPT !.io = @ + 1,
                             !.log = Append(@, [op |-> "read", line |-> "busy",
                                                value |-> IF failed THEN "none" ELSE v,
                                                ok |-> ~failed])]
         IN IF v = "Active" THEN [done |-> TRUE, elapsed |-> elapsed, c |-> c1]
            ELSE [done |-> FALSE, elapsed |-> elapsed + env.sleep_ms,
                  c |-> sleep(c1, BUSY_POLL_SLEEP)]

\* variant: the clock advances by a quarter of the sleep only
busy_poll_short_sleep(c, env, timeout, elapsed) ==
    IF ~(elapsed < timeout)
    THEN [done |-> TRUE, elapsed |-> elapsed, c |-> [c EXCEPT !.err = BusyTimeout(timeout)]]
    ELSE IF env.fail = c.io + 1
    THEN [done |-> TRUE, elapsed |-> elapsed,
          c |-> [c EXCEPT !.io = @ + 1, !.err = GpioError,
                          !.log = Append(@, [op |-> "read", line |-> "busy", value |-> "none", ok |-> FALSE])]]
    ELSE LET v == busy_line(env, c.waits, elapsed)
             c1 == [c EXCEPT !.io = @ + 1,
                             !.log = Append(@, [op |-> "read", line |-> "busy", value |-> v, ok |-> TRUE])]
         IN IF v = "Active" THEN [done |-> TRUE, elapsed |-> elapsed, c |-> c1]
            ELSE [done |-> FALSE, elapsed |-> elapsed + env.sleep_ms \div 4,
                  c |-> sleep(c1, BUSY_POLL_SLEEP)]

\* one pass of the while loop of busy_wait, elapsed being start.elapsed() at its
\* head: done when the pass leaves the loop, c and elapsed after the pass
busy_poll(c, env, timeout, elapsed) ==
    IF ~(elapsed < timeout)
    THEN [done |-> TRUE, elapsed |-> elapsed, c |-> [c EXCEPT !.err = BusyTimeout(timeout)]]
    ELSE IF env.fail = c.io + 1
    THEN [done |-> TRUE, elapsed |-> elapsed,
          c |-> [c EXCEPT !.io = @ + 1, !.err = GpioError,
                          !.log = Append(@, [op |-> "read", line |-> "busy", value |-> "none", ok |-> FALSE])]]
    ELSE LET v == busy_line(env, c.waits, elapsed)
             c1 == [c EXCEPT !.io = @ + 1,
                             !.log = Append(@, [op |-> "read", line |-> "busy", value |-> v, ok |-> TRUE])]
         IN IF v = "Active" THEN [done |-> TRUE, elapsed |-> elapsed, c |-> c1]
            ELSE [done |-> FALSE, elapsed |-> elapsed + env.sleep_ms,
                  c |-> sleep(c1, BUSY_POLL_SLEEP)]

\* the while loop of busy_wait
RECURSIVE busy_loop(_, _, _, _)
busy_loop(c, env, timeout, elapsed) ==
    LET p == busy_poll(c, env, timeout, elapsed)
    IN IF p.done THEN p.c ELSE busy_loop(p.c, env, timeout, p.elapsed)

busy_wait(c, env, timeout) ==
    IF c.err # Ok THEN c
    ELSE busy_loop([c EXCEPT !.waits = @ + 1,
                             !.log = Append(@, [op |-> "busy_wait", timeout |-> timeout])],
                   env, timeout, 0)

\* variant: a command that failed is sent a second time
send_command_wait_retry(c, env, command, data, timeout) ==
    LET c1 == send_command(c, env, command, data)
    IN IF c.err = Ok /\ c1.err # Ok
       THEN busy_wait(send_command([c1 EXCEPT !.err = Ok], env, command, data), env, timeout)
       ELSE busy_wait(c1, env, timeout)

\* InkyJd79668::send_command_wait
send_command_wait(c, env, command, data, timeout) ==
    busy_wait(send_command(c, env, command, data), env, timeout)

\* InkyJd79668::hardware_reset, on a context
reset_pulse(c, env) ==
    LET c1 == set_lone_value(c, env, "reset", "Inactive")
        c2 == sleep(c1, RESET_SLEEP)
        c3 == set_lone_value(c2, env, "reset", "Active")
    IN sleep(c3, RESET_SLEEP)

\* the register writes of initialize, in source order
init_registers ==
    << <<77, <<120>> >>,
       <<PanelSetting, <<15, 41>> >>,
       <<BoosterSoftStart, <<13, 18, 36, 37, 18, 41, 16>> >>,
       <<48, <<8>> >>,
       <<VcomDataIntervalSetting, <<55>> >>,
       <<ResolutionSetting, <<X_ADDR_START_H, X_ADDR_START_L, Y_ADDR_START_H, Y_ADDR_START_L>> >>,
       <<174, <<207>> >>,
       <<176, <<19>> >>,
       <<189, <<7>> >>,
       <<190, <<254>> >>,
       <<233, <<1>> >> >>

RECURSIVE send_registers(_, _, _)
send_registers(c, env, regs) ==
    IF Len(regs) = 0 THEN c
    ELSE LET c1 == send_command(c, env, Head(regs)[1], Some(Head(regs)[2]))
         IN IF c1.err # Ok THEN c1 ELSE send_registers(c1, env, Tail(regs))

\* variant: the result of the busy wait is dropped
init_sequence_ignores_timeout(c, env) ==
    LET c1 == reset_pulse(c, env)
        c2 == busy_wait(c1, env, INIT_BUSY_TIMEOUT)
    IN IF c1.err # Ok THEN c1
       ELSE send_registers([c2 EXCEPT !.err = Ok], env, init_registers)

\* the fallible part of initialize
init_sequence(c, env) ==
    LET c1 == reset_pulse(c, env)
        c2 == busy_wait(c1, env, INIT_BUSY_TIMEOUT)
    IN IF c1.err # Ok THEN c1
       ELSE IF c2.err # Ok THEN c2
       ELSE send_registers(c2, env, init_registers)

\* what a driver call leaves behind
Outcome(init, c) == [initialized |-> init, gpios |-> c.gpios, res |-> c.err, log |-> c.log, io |-> c.io, waits |-> c.waits]

\* variant: the flag is set before the sequence has run
initialize_marks_first(st, env) ==
    Outcome(TRUE, init_sequence(Ctx(st.gpios), env))

\* InkyJd79668::initialize
initialize(st, env) ==
    LET c == init_sequence(Ctx(st.gpios), env)
    IN Outcome(IF c.err = Ok THEN TRUE ELSE st.initialized, c)

\* variant: the pulse also releases chip-select
hardware_reset_releases_select(st, env) ==
    LET c == reset_pulse(Ctx(st.gpios), env)
    IN Outcome(st.initialized, set_lone_value(c, env, "chip_select", "Active"))

\* InkyJd79668::hardware_reset
hardware_reset(st, env) ==
    Outcome(st.initialized, reset_pulse(Ctx(st.gpios), env))

\* variant: the resolution is checked before the initialized flag
show_validate_resolution_first(st, img) ==
    IF img.res # st.display_res THEN UnsupportedResolution(st.display_res, img.res)
    ELSE IF ~st.initialized THEN Uninitialized
    ELSE pack_buffer(img.pixels).res

\* variant: the two resolutions of the error are exchanged
show_validate_swapped(st, img) ==
    IF ~st.initialized THEN Uninitialized
    ELSE IF img.res # st.display_res THEN UnsupportedResolution(img.res, st.display_res)
    ELSE pack_buffer(img.pixels).res

\* the checks show makes before it touches the hardware
show_validate(st, img) ==
    IF ~st.initialized THEN Uninitialized
    ELSE IF img.res # st.display_res THEN UnsupportedResolution(st.display_res, img.res)
    ELSE pack_buffer(img.pixels).res

\* variant: power-off is sent before display-refresh
show_sequence_off_before_refresh(c, env, packed) ==
    LET c1 == send_command(c, env, DataStartTransmission, Some(packed))
        c2 == send_command_wait(c1, env, PowerOn, None, SHOW_BUSY_TIMEOUT)
        c3 == send_command_wait(c2, env, PowerOff, Some(<<0>>), SHOW_BUSY_TIMEOUT)
        c4 == send_command_wait(c3, env, DisplayRefresh, Some(<<0>>), SHOW_BUSY_TIMEOUT)
    IN IF c1.err # Ok THEN c1
       ELSE IF c2.err # Ok THEN c2
       ELSE IF c3.err # Ok THEN c3
       ELSE IF c4.err # Ok THEN c4
       ELSE send_command_wait(c4, env, DeepSleep, Some(<<165>>), SHOW_BUSY_TIMEOUT)

\* the transmission and power sequence of show
show_sequence(c, env, packed) ==
    LET c1 == send_command(c, env, DataStartTransmission, Some(packed))
        c2 == send_command_wait(c1, env, PowerOn, None, SHOW_BUSY_TIMEOUT)
        c3 == send_command_wait(c2, env, DisplayRefresh, Some(<<0>>), SHOW_BUSY_TIMEOUT)
        c4 == send_command_wait(c3, env, PowerOff, Some(<<0>>), SHOW_BUSY_TIMEOUT)
    IN IF c1.err # Ok THEN c1
       ELSE IF c2.err # Ok THEN c2
       ELSE IF c3.err # Ok THEN c3
       ELSE IF c4.err # Ok THEN c4
       ELSE send_command_wait(c4, env, DeepSleep, Some(<<165>>), SHOW_BUSY_TIMEOUT)

\* variant: the panel selected before the pixels are packed
show_select_before_pack(st, img, env) ==
    LET c0 == Ctx(st.gpios)
        c1 == set_lone_value(c0, env, "chip_select", "Inactive")
        packed == pack_buffer(img.pixels)
    IN IF ~st.initialized THEN Outcome(st.initialized, [c0 EXCEPT !.err = Uninitialized])
       ELSE IF img.res # st.display_res
       THEN Outcome(st.initialized,
                    [c0 EXCEPT !.err = UnsupportedResolution(st.display_res, img.res)])
       ELSE IF c1.err # Ok THEN Outcome(st.initialized, c1)
       ELSE IF packed.res # Ok THEN Outcome(st.initialized, [c1 EXCEPT !.err = packed.res])
       ELSE Outcome(st.initialized, show_sequence(c0, env, packed.bytes))

\* InkyJd79668::show
show(st, img, env) ==
    LET v == show_validate(st, img)
        c0 == Ctx(st.gpios)
    IN IF v # Ok THEN Outcome(st.initialized, [c0 EXCEPT !.err = v])
       ELSE Outcome(st.initialized, show_sequence(c0, env, pack_buffer(img.pixels).bytes))

----------------------------------------------------------------------------
(* Inputs *)

\* resolutions a driver is configured with
DisplayResolutions == {Resolution(1, 1), Resolution(2, 1)}

\* resolutions and pixel values of the images handed to show
ImageResolutions == {Resolution(1, 1), Resolution(2, 1), Resolution(1, 2)}
PixelSamples == {2, 4}
Images ==
    UNION {{[res |-> r, pixels |-> p] : p \in [1..(r.width * r.height) -> PixelSamples]} :
           r \in ImageResolutions}
NoImage == [res |-> Resolution(0, 0), pixels |-> <<>>]

\* a sleep that takes far longer than asked, so that a timeout is reached in few polls
OverSleep == {20000}

\* environments of a call that makes up to maxIo I/O calls and maxWaits busy waits
Envs(maxIo, maxWaits) ==
    {[CleanEnv EXCEPT !.fail = f] : f \in 0..maxIo}
    \cup {[CleanEnv EXCEPT !.ready_at = BUSY_POLL_SLEEP * k - 5] : k \in 1..MaxBusyPolls}
    \cup {[CleanEnv EXCEPT !.stuck = s, !.sleep_ms = d] : s \in 1..maxWaits, d \in OverSleep}

\* the environment under which a call makes the most I/O calls
SlowEnv == [CleanEnv EXCEPT !.ready_at = BUSY_POLL_SLEEP * MaxBusyPolls - 5]

State == [initialized |-> initialized, display_res |-> display_res, gpios |-> gpios]

\* Jd79668Gpios::from_config: the values the output lines are requested with
from_config == [chip_select |-> "Active", data_cmd |-> "Inactive", reset |-> "Active"]

\* struct Jd79668Config; the GPIO numbers take no part in what new does
Jd79668Config(display_res_, spi_path) == [display_res |-> display_res_, spi_path |-> spi_path]

\* impl Default for Jd79668Config
DefaultConfig == Jd79668Config(Resolution(400, 300), "/dev/spidev0.0")

\* no line is held before construction
NoLines == [chip_select |-> "none", data_cmd |-> "none", reset |-> "none"]

\* error.rs: the #[from] conversion that ? applies to a failing step of new
NewError(op) == IF op = "request" THEN GpioError ELSE SpiIoError

\* one fallible step of construction; env.fail is the ordinal of the failing one
acquire(c, env, op, target, value) ==
    IF c.err # Ok THEN c
    ELSE IF env.fail = c.io + 1
    THEN [c EXCEPT !.io = @ + 1, !.err = NewError(op),
                   !.log = Append(@, [op |-> op, target |-> target, value |-> value, ok |-> FALSE])]
    ELSE [c EXCEPT !.io = @ + 1,
                   !.gpios = IF target \in DOMAIN @ THEN [@ EXCEPT ![target] = value] ELSE @,
                   !.log = Append(@, [op |-> op, target |-> target, value |-> value, ok |-> TRUE])]

\* Jd79668Gpios::from_config, a request at a time
Jd79668Gpios_from_config(c, env) ==
    LET c1 == acquire(c, env, "request", "chip_select", "Active")
        c2 == acquire(c1, env, "request", "data_cmd", "Inactive")
        c3 == acquire(c2, env, "request", "reset", "Active")
    IN acquire(c3, env, "request", "busy", "input")

\* InkyResult<InkyJd79668>
NoDriver == [initialized |-> FALSE, display_res |-> Resolution(0, 0), gpios |-> NoLines]
NewResult(ok, err, driver, log) == [ok |-> ok, err |-> err, driver |-> driver, log |-> log]

\* variant: the SPI device taken before the GPIO lines
InkyJd79668_new_spi_first(cfg, env) ==
    LET s1 == acquire(Ctx(NoLines), env, "open", cfg.spi_path, "spidev")
        s2 == acquire(s1, env, "configure", cfg.spi_path, "SPI_MODE_0 | SPI_NO_CS")
        g == Jd79668Gpios_from_config(s2, env)
    IN IF g.err # Ok THEN NewResult(FALSE, g.err, NoDriver, g.log)
       ELSE NewResult(TRUE, Ok,
                      [initialized |-> FALSE, display_res |-> cfg.display_res, gpios |-> g.gpios],
                      g.log)

\* InkyJd79668::new
InkyJd79668_new(cfg, env) ==
    LET g == Jd79668Gpios_from_config(Ctx(NoLines), env)
        s1 == acquire(g, env, "open", cfg.spi_path, "spidev")
        s2 == acquire(s1, env, "configure", cfg.spi_path, "SPI_MODE_0 | SPI_NO_CS")
    IN IF s2.err # Ok THEN NewResult(FALSE, s2.err, NoDriver, s2.log)
       ELSE NewResult(TRUE, Ok,
                      [initialized |-> FALSE, display_res |-> cfg.display_res, gpios |-> s2.gpios],
                      s2.log)

\* the fallible steps of a complete construction
NewIoCalls == Len(InkyJd79668_new(DefaultConfig, CleanEnv).log)

\* the I/O calls and busy waits of a complete initialize, hardware_reset and show
FreshState == [initialized |-> TRUE, display_res |-> Resolution(1, 1), gpios |-> from_config]
InitIoCalls == initialize(FreshState, SlowEnv).io
ResetIoCalls == hardware_reset(FreshState, SlowEnv).io
ShowIoCalls == show(FreshState, [res |-> Resolution(1, 1), pixels |-> <<0>>], SlowEnv).io
ShowWaits == show(FreshState, [res |-> Resolution(1, 1), pixels |-> <<0>>], SlowEnv).waits

----------------------------------------------------------------------------
(* The driver *)

IdlePk == [pc |-> "idle", pixels |-> <<>>, out |-> pack_buffer(<<>>)]
IdleCm == [pc |-> "idle", map |-> "none", color |-> <<0, 0, 0>>, index |-> 0,
           from |-> <<>>, looked |-> NoColor]
IdlePp == [pc |-> "idle", map |-> "none", dither |-> FALSE, desired_res |-> Resolution(1, 1),
           img |-> NoRaster, out |-> PrepareErr(Ok), shown |-> [res |-> Ok, log |-> <<>>]]
NoBusEnv == [fail_step |-> 0, err |-> Errno(0), data |-> <<>>]
IdleEe == [pc |-> "idle", env |-> NoBusEnv, out |-> ProbeResult(Blank, <<>>),
           name |-> "", spec |-> NoDisplaySpec]
IdleBw == [pc |-> "idle", timeout |-> 0, env |-> CleanEnv, elapsed |-> 0, io |-> 0, res |-> Ok,
           reads |-> 0, sleeps |-> 0, first |-> "none",
           ready_reads |-> 0, busy_reads |-> 0, failed_reads |-> 0]

IdleNw == [pc |-> "idle", cfg |-> DefaultConfig, env |-> CleanEnv,
           out |-> NewResult(FALSE, Ok, NoDriver, <<>>)]
IdleSc == [pc |-> "idle", command |-> 0, data |-> None, env |-> CleanEnv, out |-> Ctx(from_config)]

\* the driver as InkyJd79668::new returns it
DriverInit ==
    /\ initialized = FALSE
    /\ display_res \in DisplayResolutions
    /\ gpios = from_config
    /\ call = [op |-> "new", img |-> NoImage, res |-> Ok, log |-> <<>>]
    /\ init_ok_ever = FALSE

Init == DriverInit /\ pk = IdlePk /\ cm = IdleCm /\ pp = IdlePp /\ bw = IdleBw /\ ee = IdleEe /\ nw = IdleNw /\ sc = IdleSc

\* a call returns: the driver fields it wrote, its result and its I/O log
Return(op, img, r) ==
    /\ initialized' = r.initialized
    /\ gpios' = r.gpios
    /\ call' = [op |-> op, img |-> img, res |-> r.res, log |-> r.log]
    /\ init_ok_ever' = (init_ok_ever \/ (op = "initialize" /\ r.res = Ok))

Initialize ==
    /\ \E env \in Envs(InitIoCalls, 1) :
           Return("initialize", NoImage, initialize(State, env))
    /\ UNCHANGED <<display_res, pk, cm, pp, bw, ee, nw, sc>>

HardwareReset ==
    /\ \E env \in Envs(ResetIoCalls, 0) :
           Return("hardware_reset", NoImage, hardware_reset(State, env))
    /\ UNCHANGED <<display_res, pk, cm, pp, bw, ee, nw, sc>>

\* the hardware is not touched by a show that fails its checks
Show ==
    /\ \E img \in Images :
           \E env \in IF show_validate(State, img) = Ok
                      THEN Envs(ShowIoCalls, ShowWaits) ELSE {CleanEnv} :
               Return("show", img, show(State, img, env))
    /\ UNCHANGED <<display_res, pk, cm, pp, bw, ee, nw, sc>>

Next == Initialize \/ HardwareReset \/ Show

Spec == Init /\ [][Next]_vars

----------------------------------------------------------------------------
(* pack_buffer on its own: one input, packed once *)

PixelValues == (0..MaxPixelValue) \cup {255}
PackInputs == UNION {[1..n -> PixelValues] : n \in 0..MaxLen}

\* the driver of the specifications that exercise a pure function
IdleDriver ==
    /\ initialized = FALSE
    /\ display_res = Resolution(1, 1)
    /\ gpios = from_config
    /\ call = [op |-> "new", img |-> NoImage, res |-> Ok, log |-> <<>>]
    /\ init_ok_ever = FALSE

PackInit ==
    /\ IdleDriver
    /\ cm = IdleCm /\ pp = IdlePp /\ bw = IdleBw /\ ee = IdleEe /\ nw = IdleNw /\ sc = IdleSc
    /\ pk \in {[pc |-> "input", pixels |-> p, out |-> pack_buffer(<<>>)] : p \in PackInputs}

Pack ==
    /\ pk.pc = "input"
    /\ pk' = [pk EXCEPT !.pc = "done", !.out = pack_buffer(pk.pixels)]
    /\ UNCHANGED <<driver_vars, cm, pp, bw, ee, nw, sc>>

SpecPack == PackInit /\ [][Pack]_vars

----------------------------------------------------------------------------
(* index_of on its own: one colour, mapped once *)

\* channel samples: a grid over 0..255, its end points, the neighbourhoods
\* of the palette colours, and the two values about the middle of the range
Channels ==
    {k * ChanStep : k \in 0..(255 \div ChanStep)} \cup {255}
    \cup {10, 20, 190, 200, 230, 240, 250} \cup {127, 128}
Colors == {<<r, g, b>> : r \in Channels, g \in Channels, b \in Channels}

\* index samples: the first ones, and the ends of the 8-, 16- and 31-bit ranges
Indexes == (0..MaxIndex) \cup {255, 256, 65535, 65536, 2147483647}

ColorInit ==
    /\ IdleDriver
    /\ pk = IdlePk /\ pp = IdlePp /\ bw = IdleBw /\ ee = IdleEe /\ nw = IdleNw /\ sc = IdleSc
    /\ cm \in {[IdleCm EXCEPT !.pc = "input", !.map = m, !.color = c] :
                   m \in SupportedColorMaps, c \in Colors}
               \cup {[IdleCm EXCEPT !.pc = "index", !.map = m, !.index = i] :
                        m \in SupportedColorMaps, i \in Indexes}

IndexOf ==
    /\ cm.pc = "input"
    /\ cm' = [cm EXCEPT !.pc = "done", !.index = index_of(cm.map, cm.color)]
    /\ UNCHANGED <<driver_vars, pk, pp, bw, ee, nw, sc>>

\* map_color on the colour whose index was taken; from keeps the colours held
\* before, each with its index
MapColor ==
    /\ cm.pc = "done"
    /\ Len(cm.from) < MaxMaps
    /\ LET m == map_color(cm.map, cm.color)
       IN cm' = [cm EXCEPT !.pc = IF m.panic THEN "panic" ELSE "input",
                           !.color = m.color,
                           !.from = Append(@, [color |-> cm.color, index |-> cm.index])]
    /\ UNCHANGED <<driver_vars, pk, pp, bw, ee, nw, sc>>

Lookup ==
    /\ cm.pc = "index"
    /\ cm' = [cm EXCEPT !.pc = "looked", !.looked = lookup(cm.map, cm.index)]
    /\ UNCHANGED <<driver_vars, pk, pp, bw, ee, nw, sc>>

ColorNext == IndexOf \/ MapColor \/ Lookup

SpecColor == ColorInit /\ [][ColorNext]_vars

----------------------------------------------------------------------------
(* prepare and prepare_dither on their own: one raster, prepared once *)

PrepColors == {<<128, 128, 128>>, <<200, 100, 0>>, <<255, 255, 0>>, <<90, 90, 200>>}
PrepResolutions == {Resolution(2, 1), Resolution(2, 2)}

\* rasters of a few pixels, in every colouring
SmallSizes == {<<2, 1>>, <<2, 2>>, <<1, 2>>, <<3, 1>>}
SmallRasters ==
    UNION {{Image(d[1], d[2], p) : p \in [1..(d[1] * d[2]) -> PrepColors]} : d \in SmallSizes}

\* rasters with a side past the 16-bit range, in one colour
BigSizes == {<<U16_MODULUS + 2, 1>>, <<U16_MODULUS + 1, 1>>, <<1, U16_MODULUS + 2>>}
BigRasters ==
    {Image(d[1], d[2], [i \in 1..(d[1] * d[2]) |-> <<128, 128, 128>>]) : d \in BigSizes}

\* the dithering of a raster is unfolded pixel by pixel up to MaxDitherPixels
\* pixels; a larger raster is dithered only where the resolution check stops it
PrepareInputs ==
    {in \in [map : SupportedColorMaps, dither : BOOLEAN, desired_res : PrepResolutions,
             img : SmallRasters \cup BigRasters] :
        in.dither => \/ Len(in.img.pixels) <= MaxDitherPixels
                     \/ input_res(in.img) # in.desired_res}

PrepareInit ==
    /\ IdleDriver
    /\ pk = IdlePk /\ cm = IdleCm /\ bw = IdleBw /\ ee = IdleEe /\ nw = IdleNw /\ sc = IdleSc
    /\ pp \in {[IdlePp EXCEPT !.pc = "input", !.map = in.map, !.dither = in.dither,
                              !.desired_res = in.desired_res, !.img = in.img] :
               in \in PrepareInputs}

Prepare ==
    /\ pp.pc = "input" /\ ~pp.dither
    /\ pp' = [pp EXCEPT !.pc = "done", !.out = prepare(pp.map, pp.desired_res, pp.img)]
    /\ UNCHANGED <<driver_vars, pk, cm, bw, ee, nw, sc>>

PrepareDither ==
    /\ pp.pc = "input" /\ pp.dither
    /\ pp' = [pp EXCEPT !.pc = "done", !.out = prepare_dither(pp.map, pp.desired_res, pp.img)]
    /\ UNCHANGED <<driver_vars, pk, cm, bw, ee, nw, sc>>

\* the prepared image handed to show on an Initialized driver that is
\* configured with the resolution the image was prepared for
ShowPrepared ==
    /\ pp.pc = "done" /\ pp.out.res = Ok
    /\ LET st == [initialized |-> TRUE, display_res |-> pp.desired_res, gpios |-> from_config]
           r == show(st, InkyImage(pp.out), CleanEnv)
       IN pp' = [pp EXCEPT !.pc = "shown", !.shown = [res |-> r.res, log |-> r.log]]
    /\ UNCHANGED <<driver_vars, pk, cm, bw, ee, nw, sc>>

PrepareNext == Prepare \/ PrepareDither \/ ShowPrepared

SpecPrepare == PrepareInit /\ [][PrepareNext]_vars

----------------------------------------------------------------------------
(* busy_wait on its own, a pass of its loop at a time *)

BusyTimeouts == {INIT_BUSY_TIMEOUT, SHOW_BUSY_TIMEOUT}

\* what the 10 ms sleep really takes
BusySleeps == {BUSY_POLL_SLEEP, BUSY_POLL_SLEEP + 1, 25 * BUSY_POLL_SLEEP}

\* when the line turns ready: at once, within the first polls, around the timeouts
ReadyTimes ==
    {0, 5, BUSY_POLL_SLEEP, 25}
    \cup {t + d : t \in BusyTimeouts, d \in {-BUSY_POLL_SLEEP, -5, 0}}

BusyEnvs ==
    {[CleanEnv EXCEPT !.fail = f, !.ready_at = r, !.sleep_ms = d] :
        f \in 0..MaxFailRead, r \in ReadyTimes, d \in BusySleeps}
    \cup {[CleanEnv EXCEPT !.fail = f, !.stuck = 1, !.sleep_ms = d] :
             f \in 0..MaxFailRead, d \in BusySleeps}

BusyInit ==
    /\ IdleDriver
    /\ pk = IdlePk /\ cm = IdleCm /\ pp = IdlePp /\ ee = IdleEe /\ nw = IdleNw /\ sc = IdleSc
    /\ bw \in {[IdleBw EXCEPT !.pc = "polling", !.timeout = t, !.env = e] :
               t \in BusyTimeouts, e \in BusyEnvs}

\* the reads of a log, each by what it returned
ReadsOf(log) ==
    LET IsRead(e) == e.op = "read"
        r == SelectSeq(log, IsRead)
    IN [i \in 1..Len(r) |-> IF r[i].ok THEN r[i].value ELSE "failed"]
SleepsOf(log) == Cardinality({i \in 1..Len(log) : log[i].op = "sleep"})

Count(reads, what) == Cardinality({i \in 1..Len(reads) : reads[i] = what})

\* one pass of the loop, and the count of what it did: the reads of the busy
\* line by what they returned, the first of them, the sleeps
BusyPoll ==
    /\ bw.pc = "polling"
    /\ LET c == [Ctx(from_config) EXCEPT !.io = bw.io, !.waits = 1]
           p == busy_poll(c, bw.env, bw.timeout, bw.elapsed)
           r == ReadsOf(p.c.log)
       IN bw' = [bw EXCEPT !.pc = IF p.done THEN "done" ELSE "polling",
                           !.elapsed = p.elapsed,
                           !.io = p.c.io,
                           !.res = p.c.err,
                           !.reads = @ + Len(r),
                           !.first = IF bw.reads = 0 /\ Len(r) > 0 THEN r[1] ELSE @,
                           !.ready_reads = @ + Count(r, "Active"),
                           !.busy_reads = @ + Count(r, "Inactive"),
                           !.failed_reads = @ + Count(r, "failed"),
                           !.sleeps = @ + SleepsOf(p.c.log)]
    /\ UNCHANGED <<driver_vars, pk, cm, pp, ee, nw, sc>>

SpecBusy == BusyInit /\ [][BusyPoll]_vars

\* the thread in busy_wait is scheduled again after every sleep
SpecBusyFair == SpecBusy /\ WF_vars(BusyPoll)

----------------------------------------------------------------------------
(* read_eeprom on its own: one bus, probed once *)

IoErrorKinds == {"NotFound", "PermissionDenied", "TimedOut", "InvalidInput", "Other"}
Errnos == {1, 2, 5, 6, 13, 16, 110, 121}
I2cErrors ==
    {Io(IoError(k, <<"io error", k>>)) : k \in IoErrorKinds} \cup {Errno(code) : code \in Errnos}

\* the seven bytes the parser reads
HeadBytes ==
    {<<w0, w1, h0, h1, color, pcb, variant>> :
        w0 \in {0, 1, 144, 255}, w1 \in {0, 1, 255},
        h0 \in {0, 1, 44, 255}, h1 \in {0, 1, 255},
        color \in {0, 4, 255}, pcb \in {0, 12, 255}, variant \in {0, 24, 254, 255}}

\* the bytes after them: all one value, or one byte standing out at either end
TailFill(b) == [i \in 1..(EEPROM_LENGTH - 7) |-> b]
TailBytes ==
    {TailFill(0), TailFill(255), TailFill(7),
     [TailFill(0) EXCEPT ![EEPROM_LENGTH - 7] = 255],
     [TailFill(255) EXCEPT ![1] = 1],
     [TailFill(0) EXCEPT ![EEPROM_LENGTH - 7] = 128]}

\* the record of the 400 x 300 panel under every display-variant byte
VariantHeads == {<<144, 1, 44, 1, 4, 12, variant>> : variant \in 0..U8_MAX}

EepromBuffers == {h \o t : h \in HeadBytes \cup VariantHeads, t \in TailBytes}

BusEnvs ==
    {[fail_step |-> 0, err |-> Errno(0), data |-> d] : d \in EepromBuffers}
    \cup {[fail_step |-> k, err |-> e, data |-> TailFill(0)] : k \in 1..3, e \in I2cErrors}

EepromInit ==
    /\ IdleDriver
    /\ pk = IdlePk /\ cm = IdleCm /\ pp = IdlePp /\ bw = IdleBw /\ nw = IdleNw /\ sc = IdleSc
    /\ ee \in {[IdleEe EXCEPT !.pc = "input", !.env = e] : e \in BusEnvs}

ReadEeprom ==
    /\ ee.pc = "input"
    /\ ee' = [ee EXCEPT !.pc = "done", !.out = read_eeprom(ee.env)]
    /\ UNCHANGED <<driver_vars, pk, cm, pp, bw, nw, sc>>

\* variant_name() and display_spec() of the record a probe found
Describe ==
    /\ ee.pc = "done"
    /\ ee.out.status.status = "Found"
    /\ ee' = [ee EXCEPT !.pc = "described",
                        !.name = variant_name(ee.out.status.info),
                        !.spec = display_spec(ee.out.status.info)]
    /\ UNCHANGED <<driver_vars, pk, cm, pp, bw, nw, sc>>

EepromNext == ReadEeprom \/ Describe

SpecEeprom == EepromInit /\ [][EepromNext]_vars

----------------------------------------------------------------------------
(* InkyJd79668::new applied to one configuration under one environment *)

NewResolutions ==
    {Resolution(400, 300), Resolution(1, 1), Resolution(2, 1), Resolution(0, 0),
     Resolution(212, 104), Resolution(640, 400), Resolution(600, 448), Resolution(800, 480)}
SpiPaths == {"/dev/spidev0.0", "/dev/spidev0.1"}

NewInit ==
    /\ IdleDriver
    /\ pk = IdlePk /\ cm = IdleCm /\ pp = IdlePp /\ bw = IdleBw /\ ee = IdleEe /\ sc = IdleSc
    /\ nw \in {[IdleNw EXCEPT !.pc = "input", !.cfg = Jd79668Config(r, p),
                               !.env = [CleanEnv EXCEPT !.fail = f]] :
                r \in NewResolutions, p \in SpiPaths, f \in 0..NewIoCalls}

New ==
    /\ nw.pc = "input"
    /\ nw' = [nw EXCEPT !.pc = "done", !.out = InkyJd79668_new(nw.cfg, nw.env)]
    /\ UNCHANGED <<driver_vars, pk, cm, pp, bw, ee, sc>>

SpecNew == NewInit /\ [][New]_vars

----------------------------------------------------------------------------
(* send_command applied to one command and payload under one environment *)

\* a payload of n bytes that differ from frame to frame
Payload(n) == [i \in 1..n |-> (i * 7 + i \div SPI_CHUNK_SIZE) % 256]

\* the packed buffer of the default 400 x 300 panel
FullFrameBytes == (400 * 300) \div 4

PayloadLengths ==
    {0, 1, SPI_CHUNK_SIZE - 1, SPI_CHUNK_SIZE, SPI_CHUNK_SIZE + 1,
     2 * SPI_CHUNK_SIZE, 2 * SPI_CHUNK_SIZE + 1, FullFrameBytes}
Payloads == {None} \cup {Some(Payload(n)) : n \in PayloadLengths}
SendCommands == {PowerOn, DataStartTransmission}

\* the lines as construction leaves them, and as a failed send_command may
StartLines == {from_config, [from_config EXCEPT !.chip_select = "Inactive", !.data_cmd = "Active"]}

SendIoCalls == send_command(Ctx(from_config), CleanEnv, DataStartTransmission,
                            Some(Payload(FullFrameBytes))).io

SendInit ==
    /\ IdleDriver
    /\ pk = IdlePk /\ cm = IdleCm /\ pp = IdlePp /\ bw = IdleBw /\ ee = IdleEe /\ nw = IdleNw
    /\ sc \in {[IdleSc EXCEPT !.pc = "input", !.command = k, !.data = d,
                               !.env = [CleanEnv EXCEPT !.fail = f], !.out = Ctx(g)] :
                k \in SendCommands, d \in Payloads, f \in 0..SendIoCalls, g \in StartLines}

SendCommand ==
    /\ sc.pc = "input"
    /\ sc' = [sc EXCEPT !.pc = "done",
                        !.out = send_command(sc.out, sc.env, sc.command, sc.data)]
    /\ UNCHANGED <<driver_vars, pk, cm, pp, bw, ee, nw>>

SpecSend == SendInit /\ [][SendCommand]_vars

----------------------------------------------------------------------------
(* Reading the I/O log of a call *)

IsPrefix(s, t) == Len(s) <= Len(t) /\ s = SubSeq(t, 1, Len(s))

IsProtocolEvent(e) == e.op \in {"spi", "busy_wait"}
ProtocolOf(e) == IF e.op = "spi" THEN <<e.what, e.bytes>> ELSE <<"wait", <<e.timeout>> >>

\* the SPI writes (attempted) and busy waits (started) of a log, in order
Protocol(log) ==
    LET s == SelectSeq(log, IsProtocolEvent)
    IN [i \in 1..Len(s) |-> ProtocolOf(s[i])]

IsIo(e) == e.op \in {"set", "spi", "read"}
Failed(log) == {i \in 1..Len(log) : IsIo(log[i]) /\ ~log[i].ok}
SpiWrites(log) == {i \in 1..Len(log) : log[i].op = "spi"}
ReadyReads(log) == {i \in 1..Len(log) : log[i].op = "read" /\ log[i].ok /\ log[i].value = "Active"}
LastWait(log) == CHOOSE i \in 1..Len(log) : log[i].op = "busy_wait" /\ \A j \in (i + 1)..Len(log) : log[j].op # "busy_wait"

CeilDiv(n, d) == (n + d - 1) \div d

\* pixel i of p, 0 at and past the end
PixelOr0(p, i) == IF i <= Len(p) THEN p[i] ELSE 0

\* the wire format, by arithmetic: four pixels per byte, the first in the top two bits
PackedRef(p) ==
    [k \in 1..CeilDiv(Len(p), 4) |->
        PixelOr0(p, 4 * k - 3) * 64 + PixelOr0(p, 4 * k - 2) * 16
        + PixelOr0(p, 4 * k - 1) * 4 + PixelOr0(p, 4 * k)]

\* the SPI traffic of a complete show of pixels p
ShowProtocol(p) ==
    << <<"command", <<16>> >>, <<"data", PackedRef(p)>>,
       <<"command", <<4>> >>, <<"wait", <<40000>> >>,
       <<"command", <<18>> >>, <<"data", <<0>> >>, <<"wait", <<40000>> >>,
       <<"command", <<2>> >>, <<"data", <<0>> >>, <<"wait", <<40000>> >>,
       <<"command", <<7>> >>, <<"data", <<165>> >>, <<"wait", <<40000>> >> >>

\* the SPI traffic of a complete initialize
InitProtocol ==
    << <<"wait", <<1000>> >>,
       <<"command", <<77>> >>, <<"data", <<120>> >>,
       <<"command", <<0>> >>, <<"data", <<15, 41>> >>,
       <<"command", <<6>> >>, <<"data", <<13, 18, 36, 37, 18, 41, 16>> >>,
       <<"command", <<48>> >>, <<"data", <<8>> >>,
       <<"command", <<80>> >>, <<"data", <<55>> >>,
       <<"command", <<97>> >>, <<"data", <<1, 144, 1, 44>> >>,
       <<"command", <<174>> >>, <<"data", <<207>> >>,
       <<"command", <<176>> >>, <<"data", <<19>> >>,
       <<"command", <<189>> >>, <<"data", <<7>> >>,
       <<"command", <<190>> >>, <<"data", <<254>> >>,
       <<"command", <<233>> >>, <<"data", <<1>> >> >>


\* the value last driven with success on a line before entry i of a log
LastDriven(log, i, line) ==
    LET S == {j \in 1..(i - 1) : log[j].op = "set" /\ log[j].line = line /\ log[j].ok}
    IN IF S = {} THEN "unknown" ELSE log[CHOOSE j \in S : \A k \in S : k <= j].value

\* the GPIO and SPI calls of a log, without its sleeps
Calls(log) == SelectSeq(log, LAMBDA e : e.op # "sleep")

\* the payload frames of a log
Frames(log) == SelectSeq(log, LAMBDA e : e.op = "spi" /\ e.what = "data")

RECURSIVE Flatten(_)
Flatten(seqs) == IF seqs = <<>> THEN <<>> ELSE Head(seqs) \o Flatten(Tail(seqs))

SetOk(line, value) == [op |-> "set", line |-> line, value |-> value, ok |-> TRUE]

\* the payload of the first command of a log: the frames written after it
FirstPayload(log) ==
    LET E == Calls(log)
        F == {i \in 5..Len(E) : \A j \in 5..i : E[j].op = "spi" /\ E[j].what = "data"}
    IN Flatten([i \in 1..Cardinality(F) |-> E[i + 4].bytes])

----------------------------------------------------------------------------
(* Claims *)

\* C1: on a driver on which no initialize() has returned success, show(img)
\* returns Uninitialized for every image, whatever its resolution and pixels,
\* and touches no hardware.
C1_ShowBeforeInitialize ==
    (call.op = "show" /\ ~init_ok_ever) => (call.res = Uninitialized /\ call.log = <<>>)

\* a show of an image of the wrong resolution with an out-of-palette pixel, on a
\* driver no initialize() of which has succeeded
C1_Witness ==
    /\ call.op = "show" /\ ~init_ok_ever
    /\ call.img.res # display_res
    /\ \E i \in 1..Len(call.img.pixels) : call.img.pixels[i] >= 4
    /\ call.res = Uninitialized

\* C2: a show() that returns success has written exactly 0x10 with the packed
\* image, 0x04 without payload, 0x12 [0x00], 0x02 [0x00], 0x07 [0xA5], in this
\* order and once each, with one 40 s busy wait after each of the last four and
\* none between 0x10 and 0x04.
C2_ShowSequence ==
    (call.op = "show" /\ call.res = Ok) =>
        Protocol(call.log) = ShowProtocol(call.img.pixels)

\* a successful show during which the busy line was polled busy at least once
C2_Witness ==
    /\ call.op = "show" /\ call.res = Ok
    /\ \E i \in 1..Len(call.log) : call.log[i].op = "read" /\ call.log[i].value = "Inactive"

\* C3: a step of show() that fails ends the call with that step's error: the
\* failed I/O call is the last thing the call did, nothing was retried, no
\* command was written twice and none out of order; a show that returns
\* success had no failing step.
C3_ShowAbortsOnFailure ==
    (call.op = "show") =>
        /\ IsPrefix(Protocol(call.log), ShowProtocol(call.img.pixels))
        /\ (call.res = Ok => Failed(call.log) = {})
        /\ (call.res.kind \in {"GpioError", "SpiIoError"} =>
               /\ Failed(call.log) = {Len(call.log)}
               /\ call.res.kind = IF call.log[Len(call.log)].op = "spi"
                                  THEN "SpiIoError" ELSE "GpioError")
        /\ (call.res.kind = "BusyTimeout" =>
               /\ Failed(call.log) = {}
               /\ call.res.timeout = 40000
               /\ \A j \in (LastWait(call.log) + 1)..Len(call.log) :
                      \/ call.log[j].op = "sleep"
                      \/ call.log[j].op = "read" /\ call.log[j].value = "Inactive")
        /\ (Failed(call.log) # {} => call.res.kind \in {"GpioError", "SpiIoError"})

\* a show that failed on the SPI write of the display-refresh command, after
\* the image and power-on went through
C3_Witness ==
    /\ call.op = "show" /\ call.res = SpiIoError
    /\ call.log[Len(call.log)] = [op |-> "spi", what |-> "command", bytes |-> <<18>>, ok |-> FALSE]

\* C4: the driver is Uninitialized after construction; the state changes only
\* in an initialize() call, and it becomes Initialized only when that call
\* returned success after the reset, the busy wait and all eleven register
\* writes; so Initialized implies that some initialize() returned success.
C4_StateMachine ==
    /\ ~initialized
    /\ [][/\ (initialized' # initialized) => call'.op = "initialize"
          /\ (~initialized /\ initialized') =>
                 /\ call'.res = Ok
                 /\ Failed(call'.log) = {}
                 /\ Protocol(call'.log) = InitProtocol]_vars
    /\ [](initialized \in BOOLEAN /\ (initialized => init_ok_ever))

\* an Initialized driver after a failed show
C4_Witness ==
    initialized /\ call.op = "show" /\ call.res.kind = "BusyTimeout"

\* C5: after an initialize() that returned an error the driver is
\* Uninitialized, whatever its state was before the call.
C5_FailedInitializeUninitialized ==
    (call.op = "initialize" /\ call.res # Ok) => ~initialized

\* C6: every initialize() does, in order, the reset pulse (reset Inactive, then
\* Active), one busy wait of 1 s, then the eleven register writes with their
\* fixed payloads and no busy wait between them; nothing is written on SPI
\* before a read of the busy line reported ready; the resolution payload is
\* [0x01, 0x90, 0x01, 0x2C] whatever the configured resolution.
C6_InitializeSequence ==
    (call.op = "initialize") =>
        LET log == call.log
            resets == {i \in 1..Len(log) : log[i].op = "set" /\ log[i].line = "reset"}
        IN /\ IsPrefix(Protocol(log), InitProtocol)
           /\ (call.res = Ok => Protocol(log) = InitProtocol)
           /\ log[1].op = "set" /\ log[1].line = "reset" /\ log[1].value = "Inactive"
           /\ \A i \in resets : i > 1 =>
                  /\ log[i].value = "Active"
                  /\ \A j \in resets : j <= i
                  /\ \A j \in 1..Len(log) : log[j].op \in {"busy_wait", "spi"} => j > i
           /\ (call.res = Ok => Cardinality(resets) = 2)
           /\ \A i \in SpiWrites(log) : \E j \in ReadyReads(log) : j < i
           /\ (call.res.kind = "BusyTimeout" =>
                  call.res.timeout = 1000 /\ SpiWrites(log) = {})

\* a successful initialize on a driver configured for 2x1
C6_Witness ==
    /\ call.op = "initialize" /\ call.res = Ok
    /\ display_res = Resolution(2, 1)
    /\ \E i \in 1..Len(call.log) : call.log[i].op = "read" /\ call.log[i].value = "Inactive"

\* C7: on an Initialized driver show(img) returns the resolution-mismatch error
\* exactly when the image's resolution differs from the configured one, with
\* expected = the configured resolution and found = the image's.
C7_ResolutionMismatch ==
    (call.op = "show" /\ initialized) =>
        /\ (call.img.res # display_res) <=> (call.res.kind = "UnsupportedResolution")
        /\ (call.img.res # display_res) =>
               call.res = UnsupportedResolution(display_res, call.img.res)

\* an image as high as the display but of another width, refused
C7_Witness ==
    /\ call.op = "show" /\ initialized
    /\ call.img.res.height = display_res.height
    /\ call.img.res.width # display_res.width
    /\ call.res.kind = "UnsupportedResolution"

\* C8: for n indices all below 4, pack returns ceil(n/4) bytes, byte k being
\* p[4k]*64 + p[4k+1]*16 + p[4k+2]*4 + p[4k+3] with 0 past the end;
\* pack([0,1,2,3]) = [0x1B], pack([1]) = [0x40], pack([]) = [].
C8_PackFormat ==
    (pk.pc = "done" /\ \A i \in 1..Len(pk.pixels) : pk.pixels[i] < 4) =>
        /\ pk.out.res = Ok
        /\ Len(pk.out.bytes) = CeilDiv(Len(pk.pixels), 4)
        /\ pk.out.bytes = PackedRef(pk.pixels)
        /\ (pk.pixels = <<0, 1, 2, 3>> => pk.out.bytes = <<27>>)
        /\ (pk.pixels = <<1>> => pk.out.bytes = <<64>>)
        /\ (pk.pixels = <<>> => pk.out.bytes = <<>>)

\* five valid pixels packed into a full byte and a padded one
C8_Witness ==
    pk.pc = "done" /\ pk.pixels = <<0, 1, 2, 3, 1>> /\ pk.out.bytes = <<27, 64>>

\* C9: pack fails with the out-of-palette error (InvalidPalettization 0..3)
\* whenever some index is 4 or more, at any position, and returns no bytes.
C9_PackRejects ==
    (pk.pc = "done" /\ \E i \in 1..Len(pk.pixels) : pk.pixels[i] >= 4) =>
        /\ pk.out.res = InvalidPalettization(0, 3)
        /\ pk.out.bytes = <<>>

\* a single index 4 in the last position of a second group
C9_Witness ==
    /\ pk.pc = "done" /\ pk.pixels = <<0, 1, 2, 3, 4>>
    /\ pk.out.res.kind = "InvalidPalettization"

\* the sum of squared channel differences
SqDist(a, b) == (a[1] - b[1]) ^ 2 + (a[2] - b[2]) ^ 2 + (a[3] - b[3]) ^ 2
PaletteOf(map) == IF map = "InkyFourColor" THEN InkyFourColorPalette ELSE MonoColorPalette

\* C10: index_of(c) is, for both palettes, an entry at the least squared
\* distance to c and the lowest index among those; green (0,255,0) maps to 0;
\* for the 4-colour palette (10,10,10) -> 0, (250,250,240) -> 1,
\* (200,190,10) -> 2, (230,20,20) -> 3.
C10_NearestLowestIndex ==
    (cm.pc = "done") =>
        LET pal == PaletteOf(cm.map)
            d(j) == SqDist(cm.color, pal[j + 1])
        IN /\ cm.index \in 0..(Len(pal) - 1)
           /\ \A j \in 0..(Len(pal) - 1) : d(cm.index) <= d(j)
           /\ \A j \in 0..(cm.index - 1) : d(j) > d(cm.index)
           /\ (cm.color = <<0, 255, 0>> => cm.index = 0)
           /\ (cm.map = "InkyFourColor" =>
                  /\ (cm.color = <<10, 10, 10>> => cm.index = 0)
                  /\ (cm.color = <<250, 250, 240>> => cm.index = 1)
                  /\ (cm.color = <<200, 190, 10>> => cm.index = 2)
                  /\ (cm.color = <<230, 20, 20>> => cm.index = 3))

\* pure green, as far from black as from yellow, mapped to black
C10_Witness ==
    /\ cm.pc = "done" /\ cm.map = "InkyFourColor"
    /\ cm.color = <<0, 255, 0>> /\ cm.index = 0
    /\ SqDist(cm.color, <<0, 0, 0>>) = SqDist(cm.color, <<255, 255, 0>>)

PaletteColors(map) == {PaletteOf(map)[j] : j \in 1..Len(PaletteOf(map))}

\* C11: every pixel of the index image that prepare or prepare_dither returns
\* holds an index below the length of the active palette (below 4 for the
\* four-colour map), so the lookup of the reconstruction never meets
\* not-found and neither call panics.
C11_IndicesInPalette ==
    (pp.pc = "done") =>
        /\ pp.out.res.kind # "Panic"
        /\ (pp.out.res = Ok) =>
               \A i \in 1..Len(pp.out.index_img.pixels) :
                   /\ pp.out.index_img.pixels[i] < Len(PaletteOf(pp.map))
                   /\ (pp.map = "InkyFourColor" => pp.out.index_img.pixels[i] < 4)

\* a dithered raster whose indices differ from those of the plain mapping
C11_Witness ==
    /\ pp.pc = "done" /\ pp.dither /\ pp.out.res = Ok
    /\ pp.map = "InkyFourColor"
    /\ Len(pp.out.index_img.pixels) = 4
    /\ pp.out.index_img.pixels # index_colors(pp.map, pp.img).pixels
    /\ \A i \in 1..4 : pp.out.index_img.pixels[i] < 4

\* C12: prepare and prepare_dither fail with the resolution-mismatch error,
\* carrying the target resolution as expected and the raster's true width and
\* height as found, for every raster whose width or height differs from the
\* target, over the 32-bit range of dimensions; no such raster is accepted.
C12_MismatchRejected ==
    (/\ pp.pc = "done"
     /\ (pp.img.width # pp.desired_res.width \/ pp.img.height # pp.desired_res.height)) =>
        pp.out.res = UnsupportedResolution(pp.desired_res,
                                           Resolution(pp.img.width, pp.img.height))

\* C13: when the first read of the busy line in busy_wait reports ready,
\* busy_wait returns success after exactly that one read and without any
\* sleep, for the 1 s and the 40 s timeout alike.
C13_ImmediateReady ==
    (bw.first = "Active") =>
        /\ bw.pc = "done"
        /\ bw.res = Ok
        /\ bw.reads = 1
        /\ bw.sleeps = 0

\* the 40 s wait of show() over at its first read
C13_Witness ==
    /\ bw.pc = "done" /\ bw.timeout = SHOW_BUSY_TIMEOUT
    /\ bw.first = "Active" /\ bw.res = Ok /\ bw.reads = 1 /\ bw.sleeps = 0

\* C14: busy_wait(timeout) returns success exactly when one of its reads
\* reported ready; it returns the busy-timeout error only when every read
\* reported busy and the elapsed time reached the timeout, the error carrying
\* that timeout (1 s or 40 s); a failing read is returned as the GPIO error,
\* never as a timeout.
C14_BusyWaitResult ==
    (bw.pc = "done") =>
        /\ (bw.res = Ok) <=> (bw.ready_reads > 0)
        /\ (bw.res.kind = "BusyTimeout") =>
               /\ bw.res = BusyTimeout(bw.timeout)
               /\ bw.timeout \in {1000, 40000}
               /\ bw.busy_reads = bw.reads
               /\ bw.elapsed >= bw.timeout
        /\ (bw.failed_reads > 0) => bw.res = GpioError
        /\ (bw.res = GpioError) => bw.failed_reads = 1
        /\ bw.res \in {Ok, GpioError, BusyTimeout(bw.timeout)}

\* the 1 s wait of initialize() timing out after a hundred busy reads
C14_Witness ==
    /\ bw.pc = "done" /\ bw.res = BusyTimeout(1000)
    /\ bw.reads = 100 /\ bw.busy_reads = 100 /\ bw.elapsed = 1000

\* C15: for every colour c and both palettes index_of(lookup(index_of(c))) =
\* index_of(c); map_color applied to an already mapped colour leaves it
\* unchanged; every palette colour maps to its own index.
C15_MapColorIdempotent ==
    /\ (cm.pc = "done" /\ Len(cm.from) >= 1) => cm.index = cm.from[Len(cm.from)].index
    /\ (Len(cm.from) >= 2 /\ cm.pc # "panic") => cm.color = cm.from[2].color
    /\ (cm.pc = "done") =>
           \A j \in 0..(Len(PaletteOf(cm.map)) - 1) :
               cm.color = PaletteOf(cm.map)[j + 1] => cm.index = j

\* a dull yellow mapped to the palette yellow, which has the same index
C15_Witness ==
    /\ cm.pc = "done" /\ cm.map = "InkyFourColor"
    /\ cm.from = <<[color |-> <<200, 190, 10>>, index |-> 2]>>
    /\ cm.color = <<255, 255, 0>> /\ cm.index = 2

\* C16: lookup(i) returns the i-th palette colour for every index below the
\* palette length (0..3: black, white, yellow, red; two-colour palette 0..1:
\* black, white) and not-found for every index at or above it; lookup(2) and
\* lookup(3) of the two-colour palette are not-found.
C16_Lookup ==
    (cm.pc = "looked") =>
        /\ (cm.index < Len(PaletteOf(cm.map))) =>
               cm.looked = SomeColor(PaletteOf(cm.map)[cm.index + 1])
        /\ (cm.index >= Len(PaletteOf(cm.map))) => cm.looked = NoColor
        /\ (cm.map = "InkyFourColor") =>
               /\ (cm.index = 0 => cm.looked = SomeColor(<<0, 0, 0>>))
               /\ (cm.index = 1 => cm.looked = SomeColor(<<255, 255, 255>>))
               /\ (cm.index = 2 => cm.looked = SomeColor(<<255, 255, 0>>))
               /\ (cm.index = 3 => cm.looked = SomeColor(<<255, 0, 0>>))
        /\ (cm.map = "Mono") =>
               /\ (cm.index = 0 => cm.looked = SomeColor(<<0, 0, 0>>))
               /\ (cm.index = 1 => cm.looked = SomeColor(<<255, 255, 255>>))
               /\ (cm.index \in {2, 3} => cm.looked = NoColor)

\* index 2 looked up in the two-colour palette
C16_Witness ==
    cm.pc = "looked" /\ cm.map = "Mono" /\ cm.index = 2 /\ cm.looked = NoColor

\* C17: map_color is total: index_of returns an index below the palette
\* length, the lookup inside map_color finds a colour, the panic on a missing
\* one is unreachable, and the colour left behind is a palette member.
C17_MapColorTotal ==
    /\ cm.pc # "panic"
    /\ (cm.pc = "done") => cm.index \in 0..(Len(PaletteOf(cm.map)) - 1)
    /\ (Len(cm.from) >= 1) => cm.color \in PaletteColors(cm.map)

\* a colour off the palette replaced by red, the last entry
C17_Witness ==
    /\ cm.pc = "input" /\ cm.map = "InkyFourColor"
    /\ cm.from = <<[color |-> <<230, 20, 20>>, index |-> 3]>>
    /\ cm.color = <<255, 0, 0>>

BlankByte(b) == b = 0 \/ b = 255

\* C18: a 29-byte buffer that was read successfully is classified Blank
\* exactly when every byte is 0x00 or 0xFF, in any mixture; such a buffer is
\* never Invalid although its width field is 0 or 65535.
C18_BlankClassification ==
    (ee.pc = "done" /\ ee.env.fail_step = 0) =>
        /\ Len(ee.env.data) = 29
        /\ (ee.out.status = Blank) <=> (\A i \in 1..29 : BlankByte(ee.env.data[i]))
        /\ (\A i \in 1..29 : BlankByte(ee.env.data[i])) => ee.out.status.status # "Invalid"

\* a mixture of 0x00 and 0xFF bytes with a width field of 0
C18_Witness ==
    /\ ee.pc = "done" /\ ee.env.fail_step = 0
    /\ ee.env.data[1] = 0 /\ ee.env.data[2] = 0 /\ ee.env.data[7] = 255
    /\ ee.env.data[29] = 255 /\ ee.env.data[8] = 0
    /\ ee.out.status = Blank

\* C19: for a buffer read successfully that is not blank the result is
\* Invalid exactly when the width or the height is 0 or 65535 or the
\* display-variant byte is 0xFF, the width/height reason taking precedence;
\* otherwise it is Found with width = b0 + 256*b1, height = b2 + 256*b3,
\* colour = b4, PCB variant = b5, display variant = b6; the bytes 7..28 have
\* no influence.
C19_ParseFields ==
    (/\ ee.pc = "done" /\ ee.env.fail_step = 0
     /\ \E i \in 1..29 : ~BlankByte(ee.env.data[i])) =>
        LET d == ee.env.data
            width == d[1] + 256 * d[2]
            height == d[3] + 256 * d[4]
            bad_size == width \in {0, 65535} \/ height \in {0, 65535}
            bad_variant == d[7] = 255
        IN /\ (ee.out.status.status = "Invalid") <=> (bad_size \/ bad_variant)
           /\ bad_size =>
                  ee.out.status = Invalid(<<"width/height out of range", width, height>>)
           /\ (~bad_size /\ bad_variant) =>
                  ee.out.status = Invalid(<<"display variant invalid (255)">>)
           /\ (~bad_size /\ ~bad_variant) =>
                  ee.out.status = Found([width |-> width, height |-> height, color |-> d[5],
                                         pcb_variant |-> d[6], display_variant |-> d[7]])

\* the 400 x 300 panel, variant 24, with text behind the seven bytes
C19_Witness ==
    /\ ee.pc = "done" /\ ee.env.fail_step = 0
    /\ SubSeq(ee.env.data, 1, 7) = <<144, 1, 44, 1, 4, 12, 24>>
    /\ ee.env.data[8] = 7
    /\ ee.out.status = Found([width |-> 400, height |-> 300, color |-> 4,
                              pcb_variant |-> 12, display_variant |-> 24])

\* is the error of a failed step one of kind not-found or permission-denied
NoDevice(e) ==
    \/ e.variant = "Io" /\ e.io_err.kind \in {"NotFound", "PermissionDenied"}
    \/ e.variant = "Errno" /\ e.code \in {1, 2, 13}

\* C20: a probe opens the device, writes the two bytes [0x00, 0x00] and reads
\* 29 bytes, in that order, and stops at the first step that fails; a failure
\* at any step is Unavailable exactly when its error kind is not-found or
\* permission-denied and Error(message) otherwise, be it an I/O error or an
\* errno; a probe yields exactly one of Found, Blank, Invalid, Unavailable,
\* Error, the first three only after all three steps succeeded.
C20_ProbeSteps ==
    (ee.pc = "done") =>
        LET log == ee.out.log
            k == ee.env.fail_step
            steps == << <<"open", <<80>> >>, <<"write", <<0, 0>> >>, <<"read", <<29>> >> >>
        IN /\ Len(log) \in 1..3
           /\ \A i \in 1..Len(log) : <<log[i].op, log[i].arg>> = steps[i]
           /\ \A i \in 1..(Len(log) - 1) : log[i].ok
           /\ (k # 0) =>
                  /\ Len(log) = k /\ ~log[k].ok
                  /\ (ee.out.status = Unavailable) <=> NoDevice(ee.env.err)
                  /\ ~NoDevice(ee.env.err) => ee.out.status.status = "Error"
           /\ ee.out.status.status \in {"Found", "Blank", "Invalid", "Unavailable", "Error"}
           /\ (ee.out.status.status \in {"Found", "Blank", "Invalid"}) =>
                  k = 0 /\ Len(log) = 3 /\ log[3].ok

\* the cursor-reset write refused with EACCES: two steps made, Unavailable
C20_Witness ==
    /\ ee.pc = "done" /\ ee.env.fail_step = 2 /\ ee.env.err = Errno(13)
    /\ Len(ee.out.log) = 2 /\ ee.out.status = Unavailable

\* C21: for every Found record display_spec() is a concrete spec exactly when
\* the display-variant code is 24, with the width and height of the record;
\* variant_name() is the table entry for the codes 0..24 and "Unknown" for
\* 25..254; a record with such a code is Found, not Invalid.
C21_DisplaySpec ==
    /\ (ee.pc = "described") =>
           LET info == ee.out.status.info
               code == ee.env.data[7]
           IN /\ info.display_variant = code
              /\ ee.spec.some <=> (code = 24)
              /\ ee.spec.some =>
                     /\ ee.spec.width = ee.env.data[1] + 256 * ee.env.data[2]
                     /\ ee.spec.height = ee.env.data[3] + 256 * ee.env.data[4]
              /\ (code \in 0..24) => ee.name = DISPLAY_VARIANT_NAMES[code + 1]
              /\ (code \in 25..254) => ee.name = "Unknown"
              /\ (code = 24) => ee.name = "Red/Yellow wHAT (JD79668)"
              /\ (code = 0) => ee.name = "Unknown"
    /\ (/\ ee.pc = "done" /\ ee.env.fail_step = 0
        /\ SubSeq(ee.env.data, 1, 4) = <<144, 1, 44, 1>>
        /\ ee.env.data[7] \in 25..254) => ee.out.status.status = "Found"

\* the 400 x 300 wHAT, code 24, resolved to a JD79668 of that size
C21_Witness ==
    /\ ee.pc = "described" /\ ee.env.data[7] = 24
    /\ ee.spec = [some |-> TRUE, controller |-> "Jd79668", width |-> 400, height |-> 300]
    /\ ee.name = "Red/Yellow wHAT (JD79668)"

\* C23: without dithering the index at (x, y) of the result is index_of of
\* the source pixel at (x, y) and of no other pixel, the reconstruction at
\* (x, y) is the lookup of that index, and both rasters of the result have
\* exactly the target resolution.
C23_PlainPrepare ==
    (pp.pc = "done" /\ ~pp.dither /\ pp.out.res = Ok) =>
        LET w == pp.desired_res.width
            h == pp.desired_res.height
            ix == pp.out.index_img
            px == pp.out.pixel_img
        IN /\ ix.width = w /\ ix.height = h /\ Len(ix.pixels) = w * h
           /\ px.width = w /\ px.height = h /\ Len(px.pixels) = w * h
           /\ \A k \in 1..(w * h) :
                  /\ ix.pixels[k] = index_of(pp.map, pp.img.pixels[k])
                  /\ px.pixels[k] = lookup(pp.map, ix.pixels[k]).color

\* C24: construction acquires, in this order, chip-select, data/command,
\* reset and busy, then opens and then configures the SPI device; it returns
\* a driver only if all six steps succeed and otherwise stops at the first
\* failing step with that step's error, attempting no later step; every
\* returned driver is Uninitialized and has the configured resolution.
C24_Construction ==
    (nw.pc = "done") =>
        LET log == nw.out.log
            order == << <<"request", "chip_select">>, <<"request", "data_cmd">>,
                        <<"request", "reset">>, <<"request", "busy">>,
                        <<"open", nw.cfg.spi_path>>, <<"configure", nw.cfg.spi_path>> >>
        IN /\ Len(log) <= 6
           /\ \A i \in 1..Len(log) : <<log[i].op, log[i].target>> = order[i]
           /\ nw.out.ok <=> (Len(log) = 6 /\ \A i \in 1..6 : log[i].ok)
           /\ \A i \in 1..Len(log) :
                  ~log[i].ok => /\ i = Len(log)
                                /\ nw.out.err = (IF i <= 4 THEN GpioError ELSE SpiIoError)
           /\ ~nw.out.ok => (Len(log) >= 1 /\ ~log[Len(log)].ok /\ nw.out.driver = NoDriver)
           /\ nw.out.ok => /\ nw.out.err = Ok
                           /\ nw.out.driver.initialized = FALSE
                           /\ nw.out.driver.display_res = nw.cfg.display_res
                           /\ nw.out.driver.gpios = from_config

\* the SPI device fails to open after the four lines were taken
C24_Witness ==
    /\ nw.pc = "done" /\ ~nw.out.ok /\ nw.out.err = SpiIoError
    /\ Len(nw.out.log) = 5 /\ nw.cfg.display_res = Resolution(400, 300)

\* C25 as stated: in every send_command, when the command byte is written
\* the value last driven on chip-select is Active and on data/command is
\* Inactive; when a payload byte is written data/command is Active.
C25_SelectActiveAtCommand ==
    (sc.pc = "done") =>
        \A i \in 1..Len(sc.out.log) :
            LET e == sc.out.log[i]
            IN /\ (e.op = "spi" /\ e.what = "command") =>
                      /\ LastDriven(sc.out.log, i, "chip_select") = "Active"
                      /\ LastDriven(sc.out.log, i, "data_cmd") = "Inactive"
               /\ (e.op = "spi" /\ e.what = "data") =>
                      LastDriven(sc.out.log, i, "data_cmd") = "Active"

\* C25 amended: in every send_command, when the command byte is written the
\* value last driven on chip-select is Inactive (its non-idle value) and on
\* data/command is Inactive; when a payload byte is written data/command is
\* Active and chip-select is still Inactive.
C25_SelectInactiveAtCommand ==
    (sc.pc = "done") =>
        \A i \in 1..Len(sc.out.log) :
            LET e == sc.out.log[i]
            IN /\ (e.op = "spi" /\ e.what = "command") =>
                      /\ LastDriven(sc.out.log, i, "chip_select") = "Inactive"
                      /\ LastDriven(sc.out.log, i, "data_cmd") = "Inactive"
               /\ (e.op = "spi" /\ e.what = "data") =>
                      /\ LastDriven(sc.out.log, i, "data_cmd") = "Active"
                      /\ LastDriven(sc.out.log, i, "chip_select") = "Inactive"

\* a command and a payload of two frames, all written with chip-select driven Inactive
C25_Witness ==
    /\ sc.pc = "done" /\ sc.out.err = Ok
    /\ Len(sc.data.bytes) = SPI_CHUNK_SIZE + 1
    /\ Len(Frames(sc.out.log)) = 2
    /\ sc.out.log[1] = SetOk("chip_select", "Inactive")

\* C26: every successful send_command does exactly this: drive chip-select
\* to its non-idle value and data/command Inactive, write the command byte,
\* then only if data is present drive data/command Active and write the
\* payload, then drive chip-select back to Active and data/command Inactive;
\* it never reads the busy line, and on success both lines hold their
\* construction-time values.
C26_SendSequence ==
    (sc.pc = "done" /\ sc.out.err = Ok) =>
        LET E == Calls(sc.out.log)
            n == Len(E)
        IN /\ n >= 5
           /\ E[1] = SetOk("chip_select", "Inactive")
           /\ E[1].value # from_config.chip_select
           /\ E[2] = SetOk("data_cmd", "Inactive")
           /\ E[3] = [op |-> "spi", what |-> "command", bytes |-> <<sc.command>>, ok |-> TRUE]
           /\ E[n - 1] = SetOk("chip_select", "Active")
           /\ E[n] = SetOk("data_cmd", "Inactive")
           /\ IF sc.data.some
              THEN /\ n >= 7
                   /\ E[4] = SetOk("data_cmd", "Active")
                   /\ \A i \in 5..(n - 2) : E[i].op = "spi" /\ E[i].what = "data" /\ E[i].ok
                   /\ Flatten([i \in 1..(n - 6) |-> E[i + 4].bytes]) = sc.data.bytes
              ELSE n = 5
           /\ \A i \in 1..Len(sc.out.log) : sc.out.log[i].op # "read"
           /\ sc.out.waits = 0
           /\ sc.out.gpios.chip_select = from_config.chip_select
           /\ sc.out.gpios.data_cmd = from_config.data_cmd

\* a one-byte payload: seven GPIO and SPI calls, the lines back at their construction values
C26_Witness ==
    /\ sc.pc = "done" /\ sc.out.err = Ok /\ sc.data.some
    /\ Len(sc.data.bytes) = 1 /\ Len(Calls(sc.out.log)) = 7
    /\ sc.out.gpios = from_config

\* C27: a payload of n bytes is written as ceil(n / 4096) frames in
\* ascending order (one frame for n <= 4096, n = 0 included); every frame
\* but possibly the last has exactly 4096 bytes, none has more, and their
\* concatenation is the payload; after a frame whose write fails no later
\* frame is written.
C27_Framing ==
    (sc.pc = "done" /\ sc.data.some) =>
        LET F == Frames(sc.out.log)
            n == Len(sc.data.bytes)
            lo(i) == SPI_CHUNK_SIZE * (i - 1) + 1
            hi(i) == IF SPI_CHUNK_SIZE * i < n THEN SPI_CHUNK_SIZE * i ELSE n
        IN /\ \A i \in 1..Len(F) :
                  /\ F[i].bytes = SubSeq(sc.data.bytes, lo(i), hi(i))
                  /\ Len(F[i].bytes) <= SPI_CHUNK_SIZE
                  /\ (i < Len(F)) => (Len(F[i].bytes) = SPI_CHUNK_SIZE /\ F[i].ok)
                  /\ ~F[i].ok => (i = Len(F) /\ sc.out.err = SpiIoError)
           /\ (sc.out.err = Ok) =>
                  /\ Len(F) = (IF n <= SPI_CHUNK_SIZE THEN 1 ELSE CeilDiv(n, SPI_CHUNK_SIZE))
                  /\ Flatten([i \in 1..Len(F) |-> F[i].bytes]) = sc.data.bytes

\* the 30000 bytes of a full 400 x 300 frame go out in eight frames
C27_Witness ==
    /\ sc.pc = "done" /\ sc.out.err = Ok
    /\ Len(sc.data.bytes) = 30000
    /\ Len(Frames(sc.out.log)) = 8
    /\ Len(Frames(sc.out.log)[8].bytes) = 30000 - 7 * SPI_CHUNK_SIZE

\* C28: show() completes its validation (initialized, then resolution, then
\* the packing of every pixel) before its first GPIO or SPI action: a show
\* that returns Uninitialized, a resolution mismatch or an out-of-palette
\* error has driven no GPIO, read no busy line and written no SPI byte, and
\* leaves the driver state and the configured resolution as they were.
C28_ShowValidatesFirst ==
    [][(call'.op = "show") =>
          LET bad == {"Uninitialized", "UnsupportedResolution", "InvalidPalettization"}
              img == call'.img
          IN /\ (call'.res.kind \in bad) =>
                    /\ call'.log = <<>>
                    /\ initialized' = initialized
                    /\ gpios' = gpios
                    /\ display_res' = display_res
             /\ ~initialized => call'.res = Uninitialized
             /\ (initialized /\ img.res # display_res) =>
                    call'.res = UnsupportedResolution(display_res, img.res)
             /\ (initialized /\ img.res = display_res
                 /\ \E i \in 1..Len(img.pixels) : img.pixels[i] > 3) =>
                    call'.res.kind = "InvalidPalettization"]_vars

\* an out-of-palette image refused by an initialized driver whose reset line
\* a failed hardware_reset had left Inactive
C28_Witness ==
    /\ call.op = "show" /\ call.res.kind = "InvalidPalettization" /\ call.log = <<>>
    /\ initialized /\ gpios.reset = "Inactive"

\* C29: busy_wait always terminates: with the clock advancing by at least
\* the 10 ms sleep on every busy poll it returns after at most
\* ceil(timeout / 10 ms) reads of the busy line, even when the line stays
\* busy forever.
C29_BusyWaitTerminates ==
    /\ [](bw.env.sleep_ms >= BUSY_POLL_SLEEP => bw.reads <= CeilDiv(bw.timeout, BUSY_POLL_SLEEP))
    /\ <>(bw.pc = "done")

\* the line stays busy and every sleep takes exactly 10 ms: the bound is met
C29_Witness ==
    /\ bw.pc = "done" /\ bw.env.stuck = 1 /\ bw.env.sleep_ms = BUSY_POLL_SLEEP
    /\ bw.res = BusyTimeout(bw.timeout)
    /\ bw.reads = CeilDiv(bw.timeout, BUSY_POLL_SLEEP)
    /\ bw.busy_reads = bw.reads

\* C30: if the busy line turns ready strictly before the timeout and stays
\* ready, busy_wait returns success and not the busy-timeout error, at
\* whatever instant of the polling interval the line turned ready, the last
\* 10 ms sleep before the deadline included.
C30_ReadyBeforeDeadline ==
    (/\ bw.pc = "done"
     /\ bw.env.stuck = 0
     /\ bw.env.ready_at < bw.timeout) =>
        /\ bw.res.kind # "BusyTimeout"
        /\ (bw.failed_reads = 0) => bw.res = Ok

\* C31: hardware_reset() drives only the reset line, first Inactive and then
\* Active, so that a successful call leaves the reset line at Active, its
\* construction-time value; it drives neither chip-select nor data/command,
\* reads no busy line, writes nothing on SPI and does not change the driver
\* state: a hardware_reset() on an Initialized driver leaves it Initialized.
C31_ResetFrame ==
    [][(call'.op = "hardware_reset") =>
          LET sets == SelectSeq(call'.log, LAMBDA e : e.op = "set")
          IN /\ \A i \in 1..Len(call'.log) : call'.log[i].op \in {"set", "sleep"}
             /\ \A i \in 1..Len(sets) : sets[i].line = "reset"
             /\ IsPrefix([i \in 1..Len(sets) |-> sets[i].value], <<"Inactive", "Active">>)
             /\ (call'.res = Ok) =>
                    /\ sets = <<SetOk("reset", "Inactive"), SetOk("reset", "Active")>>
                    /\ gpios'.reset = "Active"
                    /\ gpios'.reset = from_config.reset
             /\ gpios'.chip_select = gpios.chip_select
             /\ gpios'.data_cmd = gpios.data_cmd
             /\ initialized' = initialized
             /\ display_res' = display_res]_vars

\* a successful reset of an Initialized driver whose chip-select a failed
\* show had left selected: the driver stays Initialized, the line selected
C31_Witness ==
    /\ call.op = "hardware_reset" /\ call.res = Ok
    /\ initialized /\ gpios.reset = "Active" /\ gpios.chip_select = "Inactive"

\* C32: every indexed image that prepare or prepare_dither produces for the
\* target resolution R, with either palette, is accepted by the checks of
\* show() on an Initialized driver configured with R: show() fails neither
\* with the resolution mismatch nor with the out-of-palette error, and the
\* payload sent with data-start-transmission has ceil(width * height / 4)
\* bytes.
C32_PipelineAgrees ==
    (pp.pc = "shown") =>
        /\ pp.shown.res.kind \notin {"UnsupportedResolution", "InvalidPalettization"}
        /\ pp.shown.res = Ok
        /\ Calls(pp.shown.log)[3] =
               [op |-> "spi", what |-> "command", bytes |-> <<DataStartTransmission>>, ok |-> TRUE]
        /\ Len(FirstPayload(pp.shown.log)) =
               CeilDiv(pp.desired_res.width * pp.desired_res.height, 4)

\* the 2-bit field j (0 the most significant) of a byte, and the first n
\* fields of a sequence of bytes
Field(byte, j) == (byte \div (4 ^ (3 - j))) % 4
Unpack(bytes, n) == [i \in 1..n |-> Field(bytes[(i - 1) \div 4 + 1], (i - 1) % 4)]

\* C33: pack loses no pixel data: for every sequence p of n indices all below
\* 4, the first n 2-bit fields of pack(p), read most-significant-first, are
\* p; every padding field of the last byte is 0; and two different valid
\* sequences of the same length never pack to the same bytes.
C33_PackLossless ==
    (pk.pc = "done" /\ \A i \in 1..Len(pk.pixels) : pk.pixels[i] < 4) =>
        LET n == Len(pk.pixels)
            bytes == pk.out.bytes
        IN /\ pk.out.res = Ok
           /\ 4 * Len(bytes) >= n /\ 4 * Len(bytes) < n + 4
           /\ Unpack(bytes, n) = pk.pixels
           /\ \A i \in (n + 1)..(4 * Len(bytes)) :
                  Field(bytes[(i - 1) \div 4 + 1], (i - 1) % 4) = 0
           /\ (n <= MaxPairLen) =>
                  \A q \in [1..n -> 0..3] :
                      q # pk.pixels => pack_buffer(q).bytes # bytes

\* five indices: a full byte and a byte with three padding fields
C33_Witness ==
    /\ pk.pc = "done" /\ pk.pixels = <<3, 0, 2, 1, 3>>
    /\ pk.out.bytes = <<201, 192>>
    /\ Unpack(pk.out.bytes, 5) = pk.pixels

\* C34: the monochrome map is a threshold on the channel sum: for every RGB
\* colour (r, g, b), MonoColorMap::index_of is 1 (white) if and only if
\* r + g + b >= 383 and 0 (black) otherwise, never another index; it is the
\* nearest-colour rule of the 4-colour map on the list {black, white}: the
\* lowest index among the entries at the least squared distance.
C34_MonoThreshold ==
    (cm.pc = "done" /\ cm.map = "Mono") =>
        LET sum == cm.color[1] + cm.color[2] + cm.color[3]
            black == SqDist(cm.color, <<0, 0, 0>>)
            white == SqDist(cm.color, <<255, 255, 255>>)
        IN /\ cm.index \in {0, 1}
           /\ (cm.index = 1) <=> (sum >= 383)
           /\ (cm.index = 0) <=> (sum <= 382)
           /\ (cm.index = 1) <=> (white < black)
           /\ black # white

\* the two colours on either side of the threshold are told apart: the
\* lighter one, of channel sum 383, is white
C34_Witness ==
    /\ cm.pc = "done" /\ cm.map = "Mono"
    /\ cm.color = <<127, 128, 128>> /\ cm.index = 1
    /\ index_of("Mono", <<127, 127, 128>>) = 0

====
